---------------------------- MODULE Spec2Model ----------------------------
(***************************************************************************)
(* Model of the discord-voicebot repository.                               *)
(*                                                                         *)
(*   SpecSink : the timeout-policy capture sink                            *)
(*              (discord_vc_sinks/audio_sinks.py)                          *)
(*   Spec     : the queue-based pipeline (voice_assistant/assistant.py)    *)
(*                                                                         *)
(* Text is a sequence of one-character strings, so that str.split,         *)
(* str.rsplit, str.lower, the substring test and the sentence regex are    *)
(* computed character by character as Python computes them.                *)
(***************************************************************************)
EXTENDS Integers, Sequences, FiniteSets, TLC

(***************************************************************************)
(* Text helpers                                                            *)
(***************************************************************************)

\* str.isspace for the characters that occur in the modelled texts
IsSpace(c) == c = " "

\* the punctuation class [.!?] of the sentence regex
IsPunct(c) == c \in {".", "!", "?"}

\* str.lower, one character
LowerChar(c) ==
    CASE c = "A" -> "a"
      [] c = "L" -> "l"
      [] c = "V" -> "v"
      [] c = "W" -> "w"
      [] c = "I" -> "i"
      [] c = "N" -> "n"
      [] c = "T" -> "t"
      [] OTHER   -> c

\* variant: a comparison that keeps the letter case
LowerKeepsCase(s) == s

\* str.lower
Lower(s) == [i \in 1..Len(s) |-> LowerChar(s[i])]

\* `sub in s` for strings
Contains(sub, s) ==
    \E i \in 1..(Len(s) - Len(sub) + 1) : SubSeq(s, i, i + Len(sub) - 1) = sub

RECURSIVE LStrip(_)
LStrip(s) == IF s # <<>> /\ IsSpace(Head(s)) THEN LStrip(Tail(s)) ELSE s

RECURSIVE RStrip(_)
RStrip(s) ==
    IF s # <<>> /\ IsSpace(s[Len(s)]) THEN RStrip(SubSeq(s, 1, Len(s) - 1)) ELSE s

\* str.strip()
Strip(s) == LStrip(RStrip(s))

\* length of the maximal run of non-whitespace characters at the head of s
RECURSIVE WordLen(_)
WordLen(s) == IF s = <<>> \/ IsSpace(Head(s)) THEN 0 ELSE 1 + WordLen(Tail(s))

\* str.split() with no separator: the maximal runs of non-whitespace
RECURSIVE Split(_)
Split(s) ==
    LET t == LStrip(s)
        n == WordLen(t)
    IN  IF t = <<>> THEN <<>>
        ELSE <<SubSeq(t, 1, n)>> \o Split(SubSeq(t, n + 1, Len(t)))

\* index of the first character of the last whitespace-delimited word of a
\* right-stripped, non-empty text
RECURSIVE LastWordStart(_, _)
LastWordStart(t, i) ==
    IF i > 1 /\ ~IsSpace(t[i - 1]) THEN LastWordStart(t, i - 1) ELSE i

\* str.rsplit(None, 1)[0]: the text before the last word with the whitespace
\* in front of that word removed; the word itself when nothing precedes it
RsplitFirst(s) ==
    LET t    == RStrip(s)
        w    == LastWordStart(t, Len(t))
        rest == RStrip(SubSeq(t, 1, w - 1))
    IN  IF rest = <<>> THEN SubSeq(t, w, Len(t)) ELSE rest

\* length of the maximal run of non-punctuation characters at the head of s
RECURSIVE NonPunctLen(_)
NonPunctLen(s) ==
    IF s = <<>> \/ IsPunct(Head(s)) THEN 0 ELSE 1 + NonPunctLen(Tail(s))

\* re.findall(r"[^.!?]+[.!?]?", s)
RECURSIVE FindSegments(_)
FindSegments(s) ==
    IF s = <<>> THEN <<>>
    ELSE LET n == NonPunctLen(s)
             m == IF n < Len(s) THEN n + 1 ELSE n
         IN  IF n = 0 THEN FindSegments(Tail(s))
             ELSE <<SubSeq(s, 1, m)>> \o FindSegments(SubSeq(s, m + 1, Len(s)))

\* [seg.strip() for seg in segments if seg.strip()]
RECURSIVE StripSegments(_)
StripSegments(segs) ==
    IF segs = <<>> THEN <<>>
    ELSE LET x == Strip(Head(segs))
         IN  (IF x = <<>> THEN <<>> ELSE <<x>>) \o StripSegments(Tail(segs))

\* " ".join(parts)
RECURSIVE Join(_)
Join(parts) ==
    IF parts = <<>> THEN <<>>
    ELSE IF Len(parts) = 1 THEN parts[1]
    ELSE parts[1] \o <<" ">> \o Join(Tail(parts))

(***************************************************************************)
(* Timeout-policy sink: discord_vc_sinks/audio_sinks.py                    *)
(***************************************************************************)

\* discord.opus.Decoder.CHANNELS, SAMPLES_PER_FRAME; int16 samples
NUM_CHANNELS == 2
NUM_SAMPLES == 960
SAMPLE_BYTES == 2
\* byte length of one frame: the only length _build_frame can reshape
FrameBytes == NUM_SAMPLES * NUM_CHANNELS * SAMPLE_BYTES
\* BufferAudioSink.write: longer packets are ignored
MAX_PACKET_BYTES == 3840
\* BufferAudioSink.BUFFER_FRAME_COUNT: the hard cap is computed from it
BUFFER_FRAME_COUNT == 300
\* AudioBuffer.BUFFER_FRAME_COUNT: the number of frame slots allocated
ALLOC_FRAME_COUNT == 800

\* speakers of the session; 42 and 7 are the ids of the spec's scenario
Speakers == {42, 7}

\* bounds of the sink model: frames stored for speaker 42 (enough to pass
\* the hard cap) and for every other speaker (whose packets are then
\* malformed or oversized ones only)
MaxFrames == 301
MaxOtherFrames == 0
MaxFramesOf(u) == IF u = 42 THEN MaxFrames ELSE MaxOtherFrames

\* packet lengths tried: empty, one sample short, exactly one frame, one over
PacketLens == {0, FrameBytes - SAMPLE_BYTES, FrameBytes, MAX_PACKET_BYTES + 1}

\* a zeroed frame slot (np.zeros / buffer.fill(0))
ZeroFrame == 0

VARIABLES
    user_sinks,      \* MultiAudioSink.user_sinks: the speakers that have a sink
    buffer,          \* per sink: AudioBuffer.buffer, as the frame slots written since the
                     \* last fill(0); every slot after them holds ZeroFrame
    buffer_pointer,  \* per sink: AudioBuffer.buffer_pointer
    timer,           \* per sink: TRUE while a started threading.Timer is pending
    flushed,         \* per speaker: the payloads given to the flush callback, concatenated
    flush_call,      \* <<[speaker, payload]>> when the last step called the flush
                     \* callback, <<>> when it did not
    frames_written,  \* per speaker: number of frames stored by fill_buffer so far
    timer_fired      \* per speaker: _timeout_flush has run for the speaker

sinkVars == <<user_sinks, buffer, buffer_pointer, timer, flushed, flush_call,
              frames_written, timer_fired>>

\* the threads that run the sink's code: the receive thread that calls
\* MultiAudioSink.write, and one threading.Timer thread per started timer
VARIABLES
    pk,              \* the receive thread inside _process_data: [pc, speaker, start,
                     \* loaded]; pc is "idle" outside of it
    timer_threads,   \* the Timer threads that have entered _timeout_flush and not
                     \* left it: [speaker, id, pc, payload]
    cleaned          \* MultiAudioSink.cleanup has returned

threadVars == <<pk, timer_threads, cleaned>>

\* the state of the queue-based pipeline (voice_assistant/assistant.py)
VARIABLES
    vc,                    \* audio_sink.vc is not None (recording started)
    audio_queue,           \* VoiceAssistant.audio_queue: [speaker, id]
    speech_to_text_queue,  \* VoiceAssistant.speech_to_text_queue: [speaker, message]
    text_to_speech_queue,  \* VoiceAssistant.text_to_speech_queue: audio
    caller_id,             \* state["caller_id"]
    message_call,          \* state["message_call"]: <<>> is None, <<[speaker, message]>>
    chat_history,          \* state["chat_history"]
    worker_pc,             \* _transcription_worker task: "off", "get", "done",
                           \* "failed"
    process_pc,            \* _process_transcriptions task: "off", "get",
                           \* "cancelled"
    msg_pc,                \* _message_sending_loop task: "off", "top", "llm", "tts",
                           \* "sleep", "crashed", "failed", "cancelled"
    pb_pc,                 \* _play_response_on_channel task: "off", "get", "wait",
                           \* "failed"
    msg_local,             \* the loop's (speaker, message) read from message_call
    llm_inflight,          \* get_chat_response calls awaiting their result
    llm_response,          \* what get_chat_response returned last: <<response>>
    tts_text,              \* the argument of the last _process_response call: <<text>>
    tts_chunks,            \* chunks of the running _process_response
    running_task,          \* _process_response: the chunk whose task is awaited
    tts_tasks,             \* get_text_to_speech tasks created and not yet collected
    tts_calls,             \* chunk indices of the get_text_to_speech calls of the
                           \* running _process_response, in the order issued
    tts_puts,              \* audio put on text_to_speech_queue by that call
    playing,               \* audio_sink.vc.is_playing()
    chunks_sent,           \* number of audio chunks the sink has flushed
    accepted,              \* number of transcripts the gate stored in message_call
    consumed,              \* number of message_call values the loop has read
    unread,                \* message_call holds a transcript the loop has not read
    last_transcript        \* the transcript _log_transcription logged last:
                           \* <<[speaker, message]>>

pipeVars == <<vc, audio_queue, speech_to_text_queue, text_to_speech_queue,
              caller_id, message_call, chat_history, worker_pc, process_pc,
              msg_pc, pb_pc, msg_local, llm_inflight, llm_response, tts_text,
              tts_chunks, running_task, tts_tasks, tts_calls, tts_puts, playing,
              chunks_sent, accepted, consumed, unread, last_transcript>>

\* the state of the energy-policy sink (discord_vc_tools/audio_api.py)
VARIABLES
    buffers,         \* BufferAudioSink.buffers: for each speaker the frames in
                     \* buffer[0 : buffer_pointer]; buffer_pointer is the length
    sink_caller_id,  \* BufferAudioSink.caller_id
    loud_written,    \* per speaker, the well-formed frames above the threshold
                     \* that write has taken for the speaker's buffer
    chunks_flushed,  \* per speaker, the frames inside the payloads flushed
    sink_flush       \* the flush calls of the last write: [speaker, payload]

energyVars == <<buffers, sink_caller_id, loud_written, chunks_flushed, sink_flush>>

\* the state of the graph-based agent (voice_assistant/agent.py)
VARIABLES
    g_caller_id,     \* global_state["caller_id"]
    g_chat_history,  \* global_state["chat_history"]
    runs,            \* the graph runs started by the flush callback, each with
                     \* its position in the graph and its State
    vc_playing       \* the run whose unit the voice client is playing, 0 for
                     \* none (audio_sink.vc.is_playing())

graphVars == <<g_caller_id, g_chat_history, runs, vc_playing>>

\* a second session on the same VoiceAssistant (voice_assistant/assistant.py)
VARIABLES
    restarted,       \* listen has been called again after stop_listening
    old_worker_pc,   \* the _transcription_worker task of the first session,
                     \* which listen does not end when it starts a new one;
                     \* while it waits in audio_queue.get() it takes chunks as
                     \* the new worker does (TranscriptionWorker is a step of
                     \* either)
    old_pb_pc        \* the _play_response_on_channel task of the first session

restartVars == <<restarted, old_worker_pc, old_pb_pc>>

\* the state of the program's other variants and of a second session
variantVars == <<energyVars, graphVars, restartVars>>

vars == <<sinkVars, threadVars, pipeVars, variantVars>>

\* n zeroed frame slots
Zeros(n) == [i \in 1..n |-> ZeroFrame]

\* AudioBuffer.__init__ and clear_buffer: np.zeros(...) and buffer.fill(0);
\* no slot is written
NewBuffer == <<>>

\* the whole array of ALLOC_FRAME_COUNT frame slots
BufferArray(b) == b \o Zeros(ALLOC_FRAME_COUNT - Len(b))

\* variant: one buffer shared by the sinks of all speakers
GetSpeakerBufferShared(u) == buffer[42]

\* BufferAudioSink._get_speaker_buffer: the buffer, allocated on first use
\* (a new buffer and a cleared one hold the same slots)
GetSpeakerBuffer(u) == buffer[u]

\* variant: a _build_frame that makes a frame of every packet
BuildFrameOkAnyLength(len) == TRUE

\* BufferAudioSink._build_frame: frombuffer(...).reshape(NUM_SAMPLES, NUM_CHANNELS)
\* succeeds only for exactly one frame of bytes; None otherwise
BuildFrameOk(len) == len = FrameBytes

\* variant: a write that takes packets of every length
OversizedNever(len) == FALSE

\* BufferAudioSink.write: the else branch of "len(voice_data) <= 3840"
Oversized(len) == len > MAX_PACKET_BYTES

\* variant: a sink without hard cap
AtHardCapNever(p) == FALSE

\* variant: a hard cap one frame later
AtHardCapLate(p) == p > BUFFER_FRAME_COUNT - 1

\* the hard-cap test of _process_data
AtHardCap(p) == p > BUFFER_FRAME_COUNT - 2

\* the payload of the hard-cap flush: current_buffer.buffer.tobytes()
HardCapSnapshot(b, p) == BufferArray(b)

\* the payload of the timeout flush: buffer[: buffer_pointer * NUM_SAMPLES].tobytes()
TimeoutSnapshot(b, p) == SubSeq(BufferArray(b), 1, p)

\* AudioBuffer.fill_buffer: the frame goes to the slot at the cursor
FillBuffer(b, p, frame) ==
    IF p < Len(b) THEN [b EXCEPT ![p + 1] = frame]
    ELSE b \o Zeros(p - Len(b)) \o <<frame>>

\* the content of the k-th frame a speaker sends (never the zero frame)
FrameOf(k) == k

\* self.flush(speaker, pcm_s16le): the callback receives the payload
Flush(u, payload) ==
    /\ flushed' = [flushed EXCEPT ![u] = @ \o payload]
    /\ flush_call' = <<[speaker |-> u, payload |-> payload]>>

SinkInit ==
    /\ user_sinks = {}
    /\ buffer = [u \in Speakers |-> <<>>]
    /\ buffer_pointer = [u \in Speakers |-> 0]
    /\ timer = [u \in Speakers |-> FALSE]
    /\ flushed = [u \in Speakers |-> <<>>]
    /\ flush_call = <<>>
    /\ frames_written = [u \in Speakers |-> 0]
    /\ timer_fired = [u \in Speakers |-> FALSE]

\* MultiAudioSink.write(data, None): no speaker id, nothing happens
WriteNoUser ==
    /\ flush_call' = <<>>
    /\ UNCHANGED <<user_sinks, buffer, buffer_pointer, timer, flushed,
                   frames_written, timer_fired>>
    /\ UNCHANGED <<threadVars, pipeVars, variantVars>>

\* MultiAudioSink.write -> BufferAudioSink.write with len(voice_data) > 3840:
\* the sink is created, the packet is ignored
WriteOversized(u, len) ==
    /\ Oversized(len)
    /\ user_sinks' = user_sinks \cup {u}
    /\ flush_call' = <<>>
    /\ UNCHANGED <<buffer, buffer_pointer, timer, flushed, frames_written,
                   timer_fired>>
    /\ UNCHANGED <<threadVars, pipeVars, variantVars>>

\* _process_data with a packet _build_frame rejects: the pending timer is
\* cancelled before the frame is built and is not started again
WriteMalformed(u, len) ==
    /\ ~Oversized(len)
    /\ ~BuildFrameOk(len)
    /\ user_sinks' = user_sinks \cup {u}
    /\ timer' = [timer EXCEPT ![u] = FALSE]
    /\ flush_call' = <<>>
    /\ UNCHANGED <<buffer, buffer_pointer, flushed, frames_written, timer_fired>>
    /\ UNCHANGED <<threadVars, pipeVars, variantVars>>

\* _process_data with a well-formed frame: cancel the timer, flush and clear
\* at the hard cap, store the frame, start a new timer
WriteFrame(u, len) ==
    /\ ~Oversized(len)
    /\ BuildFrameOk(len)
    /\ frames_written[u] < MaxFramesOf(u)
    /\ LET b     == GetSpeakerBuffer(u)
           p     == buffer_pointer[u]
           frame == FrameOf(frames_written[u] + 1)
           cap   == AtHardCap(p)
           b1    == IF cap THEN NewBuffer ELSE b
           p1    == IF cap THEN 0 ELSE p
       IN  /\ IF cap THEN Flush(u, HardCapSnapshot(b, p))
                     ELSE flush_call' = <<>> /\ UNCHANGED flushed
           /\ buffer' = [buffer EXCEPT ![u] = FillBuffer(b1, p1, frame)]
           /\ buffer_pointer' = [buffer_pointer EXCEPT ![u] = p1 + 1]
    /\ user_sinks' = user_sinks \cup {u}
    /\ frames_written' = [frames_written EXCEPT ![u] = @ + 1]
    /\ timer' = [timer EXCEPT ![u] = TRUE]
    /\ UNCHANGED timer_fired
    /\ UNCHANGED <<threadVars, pipeVars, variantVars>>

\* BufferAudioSink._timeout_flush, run by the timer thread when the timer fires
TimeoutFlush(u) ==
    /\ timer[u]
    /\ timer' = [timer EXCEPT ![u] = FALSE]
    /\ timer_fired' = [timer_fired EXCEPT ![u] = TRUE]
    /\ LET b == GetSpeakerBuffer(u)
           p == buffer_pointer[u]
       IN  IF p > 0
           THEN /\ Flush(u, TimeoutSnapshot(b, p))
                /\ buffer' = [buffer EXCEPT ![u] = NewBuffer]
                /\ buffer_pointer' = [buffer_pointer EXCEPT ![u] = 0]
           ELSE /\ buffer' = [buffer EXCEPT ![u] = b]
                /\ flush_call' = <<>>
                /\ UNCHANGED <<flushed, buffer_pointer>>
    /\ UNCHANGED <<user_sinks, frames_written>>
    /\ UNCHANGED <<threadVars, pipeVars, variantVars>>

(***************************************************************************)
(* The same sink, statement by statement: _process_data runs on the        *)
(* receive thread, every _timeout_flush on a threading.Timer thread of its *)
(* own, MultiAudioSink.cleanup on the event loop's thread. The code takes  *)
(* no lock, so the threads interleave between any two statements.          *)
(***************************************************************************)

\* bound of the statement-level model: frames stored per speaker
MaxThreadFrames == 2

PkIdle == [pc |-> "idle", speaker |-> 0, start |-> 0, loaded |-> 0]

ThreadInit ==
    /\ pk = PkIdle
    /\ timer_threads = {}
    /\ cleaned = FALSE

\* the Timer threads of speaker u that are inside _timeout_flush
TimerThreadsOf(u) == { t \in timer_threads : t.speaker = u }

\* thread t moves on to pc, holding payload
TimerThreadStep(t, pc, payload) ==
    timer_threads' = (timer_threads \ {t})
                        \cup {[t EXCEPT !.pc = pc, !.payload = payload]}

\* MultiAudioSink.write -> BufferAudioSink.write -> _process_data up to the
\* test of the frame: the pending timer is cancelled (a Timer thread that
\* already runs _timeout_flush is not affected), the frame is built
ProcessDataBegin(u, len) ==
    /\ pk.pc = "idle"
    /\ ~cleaned
    /\ ~Oversized(len)
    /\ BuildFrameOk(len) => frames_written[u] < MaxThreadFrames
    /\ user_sinks' = user_sinks \cup {u}
    /\ timer' = [timer EXCEPT ![u] = FALSE]
    /\ pk' = IF BuildFrameOk(len)
             THEN [pc |-> "cap", speaker |-> u, start |-> 0, loaded |-> 0]
             ELSE PkIdle
    /\ flush_call' = <<>>
    /\ UNCHANGED <<buffer, buffer_pointer, flushed, frames_written, timer_fired,
                   timer_threads, cleaned>>
    /\ UNCHANGED <<pipeVars, variantVars>>

\* _process_data: the hard-cap test, with its flush and clear_buffer
ProcessDataHardCap ==
    /\ pk.pc = "cap"
    /\ LET u == pk.speaker
           b == GetSpeakerBuffer(u)
           p == buffer_pointer[u]
       IN  IF AtHardCap(p)
           THEN /\ Flush(u, HardCapSnapshot(b, p))
                /\ buffer' = [buffer EXCEPT ![u] = NewBuffer]
                /\ buffer_pointer' = [buffer_pointer EXCEPT ![u] = 0]
           ELSE /\ flush_call' = <<>>
                /\ UNCHANGED <<buffer, buffer_pointer, flushed>>
    /\ pk' = [pk EXCEPT !.pc = "start"]
    /\ UNCHANGED <<user_sinks, timer, frames_written, timer_fired, timer_threads,
                   cleaned>>
    /\ UNCHANGED <<pipeVars, variantVars>>

\* fill_buffer: start = self.buffer_pointer * self.NUM_SAMPLES
FillBufferStart ==
    /\ pk.pc = "start"
    /\ pk' = [pk EXCEPT !.pc = "store", !.start = buffer_pointer[pk.speaker]]
    /\ flush_call' = <<>>
    /\ UNCHANGED <<user_sinks, buffer, buffer_pointer, timer, flushed,
                   frames_written, timer_fired, timer_threads, cleaned>>
    /\ UNCHANGED <<pipeVars, variantVars>>

\* fill_buffer: self.buffer[start:end] = frame
FillBufferStore ==
    /\ pk.pc = "store"
    /\ LET u == pk.speaker
       IN  /\ buffer' = [buffer EXCEPT
                 ![u] = FillBuffer(buffer[u], pk.start, FrameOf(frames_written[u] + 1))]
           /\ frames_written' = [frames_written EXCEPT ![u] = @ + 1]
    /\ pk' = [pk EXCEPT !.pc = "load"]
    /\ flush_call' = <<>>
    /\ UNCHANGED <<user_sinks, buffer_pointer, timer, flushed, timer_fired,
                   timer_threads, cleaned>>
    /\ UNCHANGED <<pipeVars, variantVars>>

\* fill_buffer: self.buffer_pointer += 1, the read
FillBufferLoad ==
    /\ pk.pc = "load"
    /\ pk' = [pk EXCEPT !.pc = "inc", !.loaded = buffer_pointer[pk.speaker]]
    /\ flush_call' = <<>>
    /\ UNCHANGED <<user_sinks, buffer, buffer_pointer, timer, flushed,
                   frames_written, timer_fired, timer_threads, cleaned>>
    /\ UNCHANGED <<pipeVars, variantVars>>

\* fill_buffer: self.buffer_pointer += 1, the write
FillBufferInc ==
    /\ pk.pc = "inc"
    /\ buffer_pointer' = [buffer_pointer EXCEPT ![pk.speaker] = pk.loaded + 1]
    /\ pk' = [pk EXCEPT !.pc = "timer"]
    /\ flush_call' = <<>>
    /\ UNCHANGED <<user_sinks, buffer, timer, flushed, frames_written,
                   timer_fired, timer_threads, cleaned>>
    /\ UNCHANGED <<pipeVars, variantVars>>

\* _process_data: self.timer = threading.Timer(1.5, ...); self.timer.start()
ProcessDataStartTimer ==
    /\ pk.pc = "timer"
    /\ timer' = [timer EXCEPT ![pk.speaker] = TRUE]
    /\ pk' = PkIdle
    /\ flush_call' = <<>>
    /\ UNCHANGED <<user_sinks, buffer, buffer_pointer, flushed, frames_written,
                   timer_fired, timer_threads, cleaned>>
    /\ UNCHANGED <<pipeVars, variantVars>>

\* threading.Timer.run: the wait ended without a cancel, the thread calls
\* _timeout_flush; from here on cancel() has no effect on it
TimerRun(u) ==
    /\ timer[u]
    /\ timer' = [timer EXCEPT ![u] = FALSE]
    /\ timer_fired' = [timer_fired EXCEPT ![u] = TRUE]
    /\ timer_threads' = timer_threads \cup
          {[speaker |-> u, id |-> frames_written[u], pc |-> "check", payload |-> <<>>]}
    /\ flush_call' = <<>>
    /\ UNCHANGED <<user_sinks, buffer, buffer_pointer, flushed, frames_written,
                   pk, cleaned>>
    /\ UNCHANGED <<pipeVars, variantVars>>

\* _timeout_flush: if current_buffer.buffer_pointer > 0
TimeoutFlushCheck(t) ==
    /\ t \in timer_threads
    /\ t.pc = "check"
    /\ timer_threads' = IF buffer_pointer[t.speaker] > 0
                        THEN (timer_threads \ {t}) \cup {[t EXCEPT !.pc = "snapshot"]}
                        ELSE timer_threads \ {t}
    /\ flush_call' = <<>>
    /\ UNCHANGED <<user_sinks, buffer, buffer_pointer, timer, flushed,
                   frames_written, timer_fired, pk, cleaned>>
    /\ UNCHANGED <<pipeVars, variantVars>>

\* _timeout_flush: pcm_s16le = buffer[: buffer_pointer * NUM_SAMPLES].tobytes()
TimeoutFlushSnapshot(t) ==
    /\ t \in timer_threads
    /\ t.pc = "snapshot"
    /\ TimerThreadStep(t, "flush",
          TimeoutSnapshot(GetSpeakerBuffer(t.speaker), buffer_pointer[t.speaker]))
    /\ flush_call' = <<>>
    /\ UNCHANGED <<user_sinks, buffer, buffer_pointer, timer, flushed,
                   frames_written, timer_fired, pk, cleaned>>
    /\ UNCHANGED <<pipeVars, variantVars>>

\* _timeout_flush: self.flush(speaker, pcm_s16le)
TimeoutFlushCall(t) ==
    /\ t \in timer_threads
    /\ t.pc = "flush"
    /\ Flush(t.speaker, t.payload)
    /\ TimerThreadStep(t, "fill", <<>>)
    /\ UNCHANGED <<user_sinks, buffer, buffer_pointer, timer, frames_written,
                   timer_fired, pk, cleaned>>
    /\ UNCHANGED <<pipeVars, variantVars>>

\* clear_buffer: self.buffer.fill(0)
ClearBufferFill(t) ==
    /\ t \in timer_threads
    /\ t.pc = "fill"
    /\ buffer' = [buffer EXCEPT ![t.speaker] = NewBuffer]
    /\ TimerThreadStep(t, "reset", <<>>)
    /\ flush_call' = <<>>
    /\ UNCHANGED <<user_sinks, buffer_pointer, timer, flushed, frames_written,
                   timer_fired, pk, cleaned>>
    /\ UNCHANGED <<pipeVars, variantVars>>

\* clear_buffer: self.buffer_pointer = 0; _timeout_flush returns
ClearBufferReset(t) ==
    /\ t \in timer_threads
    /\ t.pc = "reset"
    /\ buffer_pointer' = [buffer_pointer EXCEPT ![t.speaker] = 0]
    /\ timer_threads' = timer_threads \ {t}
    /\ flush_call' = <<>>
    /\ UNCHANGED <<user_sinks, buffer, timer, flushed, frames_written,
                   timer_fired, pk, cleaned>>
    /\ UNCHANGED <<pipeVars, variantVars>>

\* MultiAudioSink.cleanup, called by stop_listening when the recording has
\* ended (no packet is being written, none arrives afterwards): cancel() on
\* every sink's timer, then user_sinks.clear()
Cleanup ==
    /\ ~cleaned
    /\ pk.pc = "idle"
    /\ timer' = [u \in Speakers |-> FALSE]
    /\ user_sinks' = {}
    /\ cleaned' = TRUE
    /\ flush_call' = <<>>
    /\ UNCHANGED <<buffer, buffer_pointer, flushed, frames_written, timer_fired,
                   pk, timer_threads>>
    /\ UNCHANGED <<pipeVars, variantVars>>

(***************************************************************************)
(* Energy-policy sink: discord_vc_tools/audio_api.py                       *)
(***************************************************************************)

\* state["caller_id"] = None
NoCaller == 0

\* BufferAudioSink.BUFFER_FRAME_COUNT of audio_api.py
ENERGY_FRAME_COUNT == 600

\* the silence threshold of BufferAudioSink.write
SILENCE_THRESHOLD == 500

\* bound: frames above the threshold written for speaker 42 (the others get
\* MaxOtherFrames)
MaxEnergyFrames == 601

\* bound: an utterance ends (silence follows speech) only among the first
\* MaxSilenceAt frames of a speaker; later speech runs on to the hard cap
MaxSilenceAt == 3

MaxLoudOf(u) == IF u = 42 THEN MaxEnergyFrames ELSE MaxOtherFrames

\* np.abs(frame).sum() of the frames written: at the threshold and just
\* above it
Energies == {SILENCE_THRESHOLD, SILENCE_THRESHOLD + 1}

\* the payload None of a flush that carries no audio
NoPayload == <<"None">>

\* BufferAudioSink.__init__ of audio_api.py
EnergyInit ==
    /\ buffers = [u \in Speakers |-> <<>>]
    /\ sink_caller_id = NoCaller
    /\ loud_written = [u \in Speakers |-> 0]
    /\ chunks_flushed = [u \in Speakers |-> <<>>]
    /\ sink_flush = <<>>

\* variant: a test that takes a frame at the threshold for speech
IsSpeechAtThreshold(energy) == energy >= SILENCE_THRESHOLD

\* np.abs(frame).sum() > 500
IsSpeech(energy) == energy > SILENCE_THRESHOLD

\* current_buffer.buffer_pointer > self.BUFFER_FRAME_COUNT - 2
EnergyHardCap(p) == p > ENERGY_FRAME_COUNT - 2

\* a frame at or below the threshold meets a buffer that is neither empty
\* nor at the hard cap: the end of an utterance
EndsUtterance(p, energy) == ~EnergyHardCap(p) /\ ~IsSpeech(energy) /\ p > 0

\* write of a well-formed frame flushes: lines 74-76 and 82-84
EnergyFlushes(p, energy) == EnergyHardCap(p) \/ EndsUtterance(p, energy)

\* current_buffer.buffer.tobytes(): the whole array, the stored frames
\* followed by zeros
EnergyPayload(b) == b \o Zeros(ENERGY_FRAME_COUNT - Len(b))

\* AudioListener._transcribe, the flush callback: caller_id after a chunk of
\* speaker u whose transcript has an activation word or not
CallerAfterTranscribe(cid, u, activates) ==
    IF cid # NoCaller
    THEN cid
    ELSE IF activates THEN u ELSE NoCaller

\* write for a speaker other than the locked one: flush(speaker, None), which
\* _transcribe drops
EnergyWriteLockedOut(u) ==
    /\ sink_caller_id # NoCaller
    /\ u # sink_caller_id
    /\ sink_flush' = <<[speaker |-> u, payload |-> NoPayload]>>
    /\ UNCHANGED <<buffers, sink_caller_id, loud_written, chunks_flushed>>
    /\ UNCHANGED <<sinkVars, threadVars, pipeVars, graphVars, restartVars>>

\* write with data that _build_frame cannot shape: flush(speaker, None);
\* _transcribe gets no activation word out of it
EnergyWriteMalformed(u) ==
    /\ sink_caller_id = NoCaller \/ u = sink_caller_id
    /\ sink_flush' = <<[speaker |-> u, payload |-> NoPayload]>>
    /\ UNCHANGED <<buffers, sink_caller_id, loud_written, chunks_flushed>>
    /\ UNCHANGED <<sinkVars, threadVars, pipeVars, graphVars, restartVars>>

\* write of a well-formed frame whose np.abs(frame).sum() is energy;
\* activates tells whether the transcript of a chunk flushed by this write
\* has an activation word
EnergyWriteFrame(u, energy, activates) ==
    /\ sink_caller_id = NoCaller \/ u = sink_caller_id
    /\ IsSpeech(energy) => loud_written[u] < MaxLoudOf(u)
    /\ activates => EnergyFlushes(Len(buffers[u]), energy)
    /\ EndsUtterance(Len(buffers[u]), energy) => loud_written[u] <= MaxSilenceAt
    /\ LET b == buffers[u]
           k == loud_written[u] + 1
       IN  IF EnergyHardCap(Len(b))
           THEN /\ sink_flush' = <<[speaker |-> u, payload |-> EnergyPayload(b)]>>
                /\ chunks_flushed' = [chunks_flushed EXCEPT ![u] = @ \o b]
                /\ buffers' = [buffers EXCEPT ![u] = <<>>]
                /\ sink_caller_id' = CallerAfterTranscribe(sink_caller_id, u, activates)
                /\ loud_written' = IF IsSpeech(energy)
                                   THEN [loud_written EXCEPT ![u] = k]
                                   ELSE loud_written
           ELSE IF IsSpeech(energy)
           THEN /\ buffers' = [buffers EXCEPT ![u] = Append(b, FrameOf(k))]
                /\ loud_written' = [loud_written EXCEPT ![u] = k]
                /\ sink_flush' = <<>>
                /\ UNCHANGED <<chunks_flushed, sink_caller_id>>
           ELSE IF Len(b) > 0
           THEN /\ sink_flush' = <<[speaker |-> u, payload |-> EnergyPayload(b)]>>
                /\ chunks_flushed' = [chunks_flushed EXCEPT ![u] = @ \o b]
                /\ buffers' = [buffers EXCEPT ![u] = <<>>]
                /\ sink_caller_id' = CallerAfterTranscribe(sink_caller_id, u, activates)
                /\ UNCHANGED loud_written
           ELSE /\ sink_flush' = <<>>
                /\ UNCHANGED <<buffers, sink_caller_id, loud_written, chunks_flushed>>
    /\ UNCHANGED <<sinkVars, threadVars, pipeVars, graphVars, restartVars>>

\* AudioListener._check_chat_status on a response that ends the turn:
\* audio_sink.caller_id = None
EnergyEndOfTurn ==
    /\ sink_caller_id # NoCaller
    /\ sink_caller_id' = NoCaller
    /\ sink_flush' = <<>>
    /\ UNCHANGED <<buffers, loud_written, chunks_flushed>>
    /\ UNCHANGED <<sinkVars, threadVars, pipeVars, graphVars, restartVars>>

(***************************************************************************)
(* Queue-based pipeline: voice_assistant/assistant.py                      *)
(***************************************************************************)

\* state["activate_words"]
ActivateWords == { <<"a","l","v","i","n">>, <<"a","l","w","i","n">> }

\* the end-of-turn sentinel of _check_chat_status
Sentinel == <<"T","r","u","e">>

\* state["system_prompt"] (its text does not matter to the pipeline)
SystemPrompt == <<"s","y","s">>

\* transcripts the speech-to-text call may return:
\* "hey Alvin", "ALWIN", "hi", ""
Messages ==
    { <<"h","e","y"," ","A","l","v","i","n">>,
      <<"A","L","W","I","N">>,
      <<"h","i">>,
      <<>> }

\* responses the language model may return:
\* "Bye True", "True", "! True", "I'm fine.", "a.b.c.d.e", ""
Responses ==
    { <<"B","y","e"," ","T","r","u","e">>,
      <<"T","r","u","e">>,
      <<"!"," ","T","r","u","e">>,
      <<"I","'","m"," ","f","i","n","e",".">>,
      <<"a",".","b",".","c",".","d",".","e">>,
      <<>> }

\* bounds of the pipeline model: audio chunks flushed into the pipeline
MaxAudioChunks == 2

\* audio chunks flushed when only the capture and transcription stages run
MaxQueuedChunks == 3

\* chunk_size of TextToSpeech._process_response
CHUNK_SIZE == 2


\* the termination marker None that stop_listening puts on a queue
NoneItem == [none |-> TRUE]

\* VoiceAssistant.__init__
PipeInit ==
    /\ vc = FALSE
    /\ audio_queue = <<>>
    /\ speech_to_text_queue = <<>>
    /\ text_to_speech_queue = <<>>
    /\ caller_id = NoCaller
    /\ message_call = <<>>
    /\ chat_history = <<>>
    /\ worker_pc = "off"
    /\ process_pc = "off"
    /\ msg_pc = "off"
    /\ pb_pc = "off"
    /\ msg_local = <<>>
    /\ llm_inflight = 0
    /\ llm_response = <<>>
    /\ tts_text = <<>>
    /\ tts_chunks = <<>>
    /\ running_task = 0
    /\ tts_tasks = {}
    /\ tts_calls = <<>>
    /\ tts_puts = <<>>
    /\ playing = FALSE
    /\ chunks_sent = 0
    /\ accepted = 0
    /\ consumed = 0
    /\ unread = FALSE
    /\ last_transcript = <<>>

\* variant: a gate that takes every transcript for an activation
HasActivateWordAlways(message) == TRUE

\* any(word.lower() in message.lower() for word in state["activate_words"])
HasActivateWord(message) ==
    \E w \in ActivateWords : Contains(Lower(w), Lower(message))

\* variant: a gate that, once locked, stores the transcript of any speaker
HandleCallerIdAnySpeaker(cid, mc, speaker, message) ==
    LET call == <<[speaker |-> speaker, message |-> message]>>
    IN  IF cid # NoCaller \/ HasActivateWord(message)
        THEN [caller_id |-> (IF cid # NoCaller THEN cid ELSE speaker),
              message_call |-> call, stored |-> TRUE]
        ELSE [caller_id |-> cid, message_call |-> mc, stored |-> FALSE]

\* SpeechToText._handle_caller_id: the caller_id and message_call it leaves,
\* and whether it stored the transcript
HandleCallerId(cid, mc, speaker, message) ==
    LET call == <<[speaker |-> speaker, message |-> message]>>
    IN  IF cid # NoCaller
        THEN IF cid = speaker
             THEN [caller_id |-> cid, message_call |-> call, stored |-> TRUE]
             ELSE [caller_id |-> cid, message_call |-> mc, stored |-> FALSE]
        ELSE IF HasActivateWord(message)
             THEN [caller_id |-> speaker, message_call |-> call, stored |-> TRUE]
             ELSE [caller_id |-> cid, message_call |-> mc, stored |-> FALSE]

\* LanguageModel._get_context
GetContext(history, message) ==
    IF history # <<>>
    THEN Append(history, [role |-> "user", content |-> message])
    ELSE << [role |-> "system", content |-> SystemPrompt],
            [role |-> "user", content |-> message] >>

\* the two appends a completed generation makes: messages.append(...) inside
\* OpenAIClient.get_chat_response, on the list it was given, and the append of
\* _message_sending_loop
AppendReply(history, response) ==
    history \o << [role |-> "assistant", content |-> response],
                  [role |-> "assistant", content |-> response] >>

\* response.split()[-1] raises IndexError when the response has no token
HasToken(response) == Split(response) # <<>>

\* the test of LanguageModel._check_chat_status
EndsTurn(response) ==
    LET toks == Split(response) IN toks[Len(toks)] = Sentinel

\* variant: a _check_chat_status that removes the last token of every response
CheckChatStatusAlwaysStrips(response) == RsplitFirst(response)

\* the value LanguageModel._check_chat_status returns
CheckChatStatus(response) ==
    IF EndsTurn(response) THEN RsplitFirst(response) ELSE response

\* [" ".join(segments[i : i + chunk_size]) for i in range(0, len(segments), chunk_size)]
RECURSIVE JoinChunks(_)
JoinChunks(segs) ==
    IF segs = <<>> THEN <<>>
    ELSE IF Len(segs) <= CHUNK_SIZE THEN <<Join(segs)>>
    ELSE <<Join(SubSeq(segs, 1, CHUNK_SIZE))>>
         \o JoinChunks(SubSeq(segs, CHUNK_SIZE + 1, Len(segs)))

\* the chunks TextToSpeech._process_response synthesizes
Chunks(response) == JoinChunks(StripSegments(FindSegments(response)))

\* what get_text_to_speech returns for chunk k of a response
Audio(k, text) == [chunk |-> k, text |-> text]

\* asyncio.create_task(self.synthesizer.get_text_to_speech(chunks[k]))
Task(g, k, kind) == [gen |-> g, k |-> k, kind |-> kind, done |-> FALSE]

\* the task _process_response awaits
AwaitedTask == [gen |-> consumed, k |-> running_task, kind |-> "run", done |-> TRUE]

\* _process_response from its start to its first await: the tasks created, in
\* creation order, as chunk indices (prefetch of chunk 2, task of chunk 1,
\* prefetch of chunk 3)
FirstCalls(n) ==
    (IF n > 1 THEN <<[k |-> 2, kind |-> "prefetch"]>> ELSE <<>>)
    \o <<[k |-> 1, kind |-> "run"]>>
    \o (IF n > 2 THEN <<[k |-> 3, kind |-> "prefetch"]>> ELSE <<>>)

\* _process_response between the await of chunk k and the next await
NextCalls(k, n) ==
    <<[k |-> k + 1, kind |-> "run"]>>
    \o (IF k + 2 < n THEN <<[k |-> k + 3, kind |-> "prefetch"]>> ELSE <<>>)

TasksOf(g, calls) == { Task(g, calls[i].k, calls[i].kind) : i \in 1..Len(calls) }

CallIndices(calls) == [i \in 1..Len(calls) |-> calls[i].k]

\* _check_chat_status: state["caller_id"] after the response was evaluated
CallerAfterResponse(cid, response) ==
    IF EndsTurn(response) THEN NoCaller ELSE cid

\* variant: a _check_chat_status that does not reset chat_history
HistoryNeverCleared(history, response) == AppendReply(history, response)

\* state["chat_history"] after the appends and _check_chat_status
HistoryAfterResponse(history, response) ==
    IF EndsTurn(response) THEN <<>> ELSE AppendReply(history, response)

\* variant: a loop that starts the call and goes on without awaiting it
PcAfterChatCallNotAwaited == "top"

\* the loop awaits get_chat_response: it is suspended until the call returns
PcAfterChatCall == "llm"

\* variant: a _process_response without the await and put after its for loop
ResumePutsInLoopOnly(k, n, audio) == IF k < n THEN <<audio>> ELSE <<>>

\* what _process_response puts on the queue when the task of chunk k of n
\* returns: inside the for loop for k < n, after the loop for the last chunk
ResumePuts(k, n, audio) == <<audio>>

\* VoiceAssistant.listen followed by vc.start_recording (the listen command)
Listen ==
    /\ ~vc
    /\ msg_pc = "off"
    /\ vc' = TRUE
    /\ msg_pc' = "top"
    /\ worker_pc' = "get"
    /\ process_pc' = "get"
    /\ pb_pc' = "get"
    /\ UNCHANGED <<audio_queue, speech_to_text_queue, text_to_speech_queue,
                   caller_id, message_call, chat_history, msg_local,
                   llm_inflight, llm_response, tts_text, tts_chunks,
                   running_task, tts_tasks, tts_calls, tts_puts, playing,
                   chunks_sent, accepted, consumed, unread, last_transcript>>
    /\ UNCHANGED <<sinkVars, threadVars, variantVars>>

\* AudioInput._send_to_speech_to_text_queue: the sink's flush callback, for
\* at most max chunks
SendChunk(u, max) ==
    /\ vc
    /\ chunks_sent < max
    /\ chunks_sent' = chunks_sent + 1
    /\ audio_queue' = Append(audio_queue, [speaker |-> u, id |-> chunks_sent + 1])
    /\ UNCHANGED <<vc, speech_to_text_queue, text_to_speech_queue, caller_id,
                   message_call, chat_history, worker_pc, process_pc, msg_pc,
                   pb_pc, msg_local, llm_inflight, llm_response, tts_text,
                   tts_chunks, running_task, tts_tasks, tts_calls, tts_puts,
                   playing, accepted, consumed, unread, last_transcript>>
    /\ UNCHANGED <<sinkVars, threadVars, variantVars>>

\* the flush callback in the whole pipeline
SendToSpeechToTextQueue(u) == SendChunk(u, MaxAudioChunks)

\* the flush callback when only the capture and transcription stages run
SendToAudioQueue(u) == SendChunk(u, MaxQueuedChunks)

\* variant: a queue whose get returns the item put last
QueueGetLifo(queue) ==
    [item |-> queue[Len(queue)], rest |-> SubSeq(queue, 1, Len(queue) - 1)]

\* asyncio.Queue.get on a non-empty queue: the item returned and the queue
\* left behind
QueueGet(queue) == [item |-> Head(queue), rest |-> Tail(queue)]

\* one iteration of SpeechToText._transcription_worker; tr is what
\* transcribe_pcm returns: <<>> for None, <<message>> otherwise
TranscriptionWorker(tr) ==
    /\ worker_pc = "get"
    /\ audio_queue # <<>>
    /\ QueueGet(audio_queue).item # NoneItem
    /\ audio_queue' = QueueGet(audio_queue).rest
    /\ speech_to_text_queue' =
          IF tr # <<>>
          THEN Append(speech_to_text_queue,
                      [speaker |-> QueueGet(audio_queue).item.speaker,
                       message |-> tr[1]])
          ELSE speech_to_text_queue
    /\ UNCHANGED <<vc, text_to_speech_queue, caller_id, message_call,
                   chat_history, worker_pc, process_pc, msg_pc, pb_pc, msg_local,
                   llm_inflight, llm_response, tts_text, tts_chunks,
                   running_task, tts_tasks, tts_calls, tts_puts, playing,
                   chunks_sent, accepted, consumed, unread, last_transcript>>
    /\ UNCHANGED <<sinkVars, threadVars, variantVars>>

\* one iteration of SpeechToText._process_transcriptions
ProcessTranscriptions ==
    /\ process_pc = "get"
    /\ speech_to_text_queue # <<>>
    /\ speech_to_text_queue' = Tail(speech_to_text_queue)
    /\ last_transcript' = <<Head(speech_to_text_queue)>>
    /\ LET t == Head(speech_to_text_queue)
           r == HandleCallerId(caller_id, message_call, t.speaker, t.message)
       IN  /\ caller_id' = r.caller_id
           /\ message_call' = r.message_call
           /\ accepted' = IF r.stored THEN accepted + 1 ELSE accepted
           /\ unread' = IF r.stored THEN TRUE ELSE unread
    /\ UNCHANGED <<vc, audio_queue, text_to_speech_queue, chat_history,
                   worker_pc, process_pc, msg_pc, pb_pc, msg_local, llm_inflight,
                   llm_response, tts_text, tts_chunks, running_task, tts_tasks,
                   tts_calls, tts_puts, playing, chunks_sent, consumed>>
    /\ UNCHANGED <<sinkVars, threadVars, variantVars>>

\* _message_sending_loop, line "if self.state['message_call']" up to the await
\* of get_chat_response, or to the await of sleep when nothing is generated
MessageLoopTop ==
    /\ msg_pc = "top"
    /\ IF message_call # <<>>
       THEN /\ consumed' = consumed + 1
            /\ unread' = FALSE
            /\ msg_local' = message_call
            /\ IF message_call[1].message # <<>>
               THEN /\ chat_history' = GetContext(chat_history, message_call[1].message)
                    /\ llm_inflight' = llm_inflight + 1
                    /\ msg_pc' = PcAfterChatCall
                    /\ UNCHANGED message_call
               ELSE /\ message_call' = <<>>
                    /\ msg_pc' = "sleep"
                    /\ UNCHANGED <<chat_history, llm_inflight>>
       ELSE /\ msg_pc' = "sleep"
            /\ UNCHANGED <<consumed, unread, msg_local, chat_history, llm_inflight,
                           message_call>>
    /\ UNCHANGED <<vc, audio_queue, speech_to_text_queue, text_to_speech_queue,
                   caller_id, worker_pc, process_pc, pb_pc, llm_response,
                   tts_text, tts_chunks, running_task, tts_tasks, tts_calls,
                   tts_puts, playing, chunks_sent, accepted, last_transcript>>
    /\ UNCHANGED <<sinkVars, threadVars, variantVars>>

\* _message_sending_loop from the return of get_chat_response to the next
\* await: the appends, _check_chat_status, and _process_response up to its
\* first await (or to sleep when there is no chunk)
MessageLoopResponse(response) ==
    /\ msg_pc = "llm"
    /\ llm_inflight' = llm_inflight - 1
    /\ llm_response' = <<response>>
    /\ IF ~HasToken(response)
       THEN \* IndexError in _check_chat_status ends the task
            /\ chat_history' = AppendReply(chat_history, response)
            /\ msg_pc' = "crashed"
            /\ UNCHANGED <<caller_id, message_call, unread, tts_text, tts_chunks,
                           running_task, tts_tasks, tts_calls, tts_puts>>
       ELSE LET text   == CheckChatStatus(response)
                chunks == Chunks(text)
                n      == Len(chunks)
            IN  /\ caller_id' = CallerAfterResponse(caller_id, response)
                /\ chat_history' = HistoryAfterResponse(chat_history, response)
                /\ tts_text' = <<text>>
                /\ tts_chunks' = chunks
                /\ tts_puts' = <<>>
                /\ IF n = 0
                   THEN /\ message_call' = <<>>
                        /\ unread' = FALSE
                        /\ msg_pc' = "sleep"
                        /\ tts_calls' = <<>>
                        /\ UNCHANGED <<running_task, tts_tasks>>
                   ELSE /\ tts_tasks' = tts_tasks \cup TasksOf(consumed, FirstCalls(n))
                        /\ tts_calls' = CallIndices(FirstCalls(n))
                        /\ running_task' = 1
                        /\ msg_pc' = "tts"
                        /\ UNCHANGED <<message_call, unread>>
    /\ UNCHANGED <<vc, audio_queue, speech_to_text_queue, text_to_speech_queue,
                   worker_pc, process_pc, pb_pc, msg_local, playing, chunks_sent,
                   accepted, consumed, last_transcript>>
    /\ UNCHANGED <<sinkVars, threadVars, variantVars>>

\* a get_text_to_speech call completes; the result of a task nobody awaits is
\* dropped with the task
TextToSpeechCompletes(t) ==
    /\ t \in tts_tasks
    /\ ~t.done
    /\ tts_tasks' = IF t.kind = "run"
                    THEN (tts_tasks \ {t}) \cup {[t EXCEPT !.done = TRUE]}
                    ELSE tts_tasks \ {t}
    /\ UNCHANGED <<vc, audio_queue, speech_to_text_queue, text_to_speech_queue,
                   caller_id, message_call, chat_history, worker_pc, process_pc,
                   msg_pc, pb_pc, msg_local, llm_inflight, llm_response,
                   tts_text, tts_chunks, running_task, tts_calls, tts_puts,
                   playing, chunks_sent, accepted, consumed, unread,
                   last_transcript>>
    /\ UNCHANGED <<sinkVars, threadVars, variantVars>>

\* _process_response from the return of "await running_task" to the next
\* await; after the last chunk, the loop's "message_call = None" and sleep
ProcessResponseResume ==
    /\ msg_pc = "tts"
    /\ AwaitedTask \in tts_tasks
    /\ LET k     == running_task
           n     == Len(tts_chunks)
           audio == Audio(k, tts_chunks[k])
       IN  /\ text_to_speech_queue' = text_to_speech_queue \o ResumePuts(k, n, audio)
           /\ tts_puts' = tts_puts \o ResumePuts(k, n, audio)
           /\ IF k < n
              THEN /\ tts_tasks' = (tts_tasks \ {AwaitedTask})
                                      \cup TasksOf(consumed, NextCalls(k, n))
                   /\ tts_calls' = tts_calls \o CallIndices(NextCalls(k, n))
                   /\ running_task' = k + 1
                   /\ UNCHANGED <<msg_pc, message_call, unread>>
              ELSE /\ tts_tasks' = tts_tasks \ {AwaitedTask}
                   /\ running_task' = 0
                   /\ message_call' = <<>>
                   /\ unread' = FALSE
                   /\ msg_pc' = "sleep"
                   /\ UNCHANGED tts_calls
    /\ UNCHANGED <<vc, audio_queue, speech_to_text_queue, caller_id,
                   chat_history, worker_pc, process_pc, pb_pc, msg_local,
                   llm_inflight, llm_response, tts_text, tts_chunks, playing,
                   chunks_sent, accepted, consumed, last_transcript>>
    /\ UNCHANGED <<sinkVars, threadVars, variantVars>>

\* _message_sending_loop: asyncio.sleep(1) returns and the next iteration
\* starts; the locals of the iteration that ended are gone
MessageLoopWake ==
    /\ msg_pc = "sleep"
    /\ msg_pc' = "top"
    /\ msg_local' = <<>>
    /\ llm_response' = <<>>
    /\ tts_text' = <<>>
    /\ tts_chunks' = <<>>
    /\ tts_calls' = <<>>
    /\ tts_puts' = <<>>
    /\ UNCHANGED <<vc, audio_queue, speech_to_text_queue, text_to_speech_queue,
                   caller_id, message_call, chat_history, worker_pc, process_pc,
                   pb_pc, llm_inflight, running_task, tts_tasks, playing,
                   chunks_sent, accepted, consumed, unread, last_transcript>>
    /\ UNCHANGED <<sinkVars, threadVars, variantVars>>

\* AudioOutput._play_response_on_channel: get a unit and play it
PlayResponse ==
    /\ pb_pc = "get"
    /\ text_to_speech_queue # <<>>
    /\ text_to_speech_queue' = Tail(text_to_speech_queue)
    /\ IF vc THEN playing' = TRUE /\ pb_pc' = "wait"
             ELSE UNCHANGED <<playing, pb_pc>>
    /\ UNCHANGED <<vc, audio_queue, speech_to_text_queue, caller_id,
                   message_call, chat_history, worker_pc, process_pc, msg_pc,
                   msg_local, llm_inflight, llm_response, tts_text, tts_chunks,
                   running_task, tts_tasks, tts_calls, tts_puts, chunks_sent,
                   accepted, consumed, unread, last_transcript>>
    /\ UNCHANGED <<sinkVars, threadVars, variantVars>>

\* the voice client finishes playing the unit
PlayEnds ==
    /\ playing
    /\ playing' = FALSE
    /\ UNCHANGED <<vc, audio_queue, speech_to_text_queue, text_to_speech_queue,
                   caller_id, message_call, chat_history, worker_pc, process_pc,
                   msg_pc, pb_pc, msg_local, llm_inflight, llm_response,
                   tts_text, tts_chunks, running_task, tts_tasks, tts_calls,
                   tts_puts, chunks_sent, accepted, consumed, unread,
                   last_transcript>>
    /\ UNCHANGED <<sinkVars, threadVars, variantVars>>

\* variant: a voice client that never reports a unit as playing
IsPlayingNever == FALSE

\* audio_sink.vc.is_playing()
IsPlaying == playing

\* _play_response_on_channel: "while audio_sink.vc.is_playing()" sees False
PlayWaitEnds ==
    /\ pb_pc = "wait"
    /\ vc
    /\ ~IsPlaying
    /\ pb_pc' = "get"
    /\ UNCHANGED <<vc, audio_queue, speech_to_text_queue, text_to_speech_queue,
                   caller_id, message_call, chat_history, worker_pc, process_pc,
                   msg_pc, msg_local, llm_inflight, llm_response, tts_text,
                   tts_chunks, running_task, tts_tasks, tts_calls, tts_puts,
                   playing, chunks_sent, accepted, consumed, unread,
                   last_transcript>>
    /\ UNCHANGED <<sinkVars, threadVars, variantVars>>

\* _transcription_worker: the item is None, the loop breaks and the task ends
TranscriptionWorkerExit ==
    /\ worker_pc = "get"
    /\ audio_queue # <<>>
    /\ Head(audio_queue) = NoneItem
    /\ audio_queue' = Tail(audio_queue)
    /\ worker_pc' = "done"
    /\ UNCHANGED <<vc, speech_to_text_queue, text_to_speech_queue, caller_id,
                    message_call, chat_history, process_pc, msg_pc, pb_pc,
                    msg_local, llm_inflight, llm_response, tts_text,
                    tts_chunks, running_task, tts_tasks, tts_calls, tts_puts,
                    playing, chunks_sent, accepted, consumed, unread,
                    last_transcript>>
    /\ UNCHANGED <<sinkVars, threadVars, variantVars>>

\* _transcription_worker: transcribe_pcm raises; neither it nor the worker
\* has an except clause, so the exception ends the task
TranscriptionWorkerFails ==
    /\ worker_pc = "get"
    /\ audio_queue # <<>>
    /\ Head(audio_queue) # NoneItem
    /\ audio_queue' = Tail(audio_queue)
    /\ worker_pc' = "failed"
    /\ UNCHANGED <<vc, speech_to_text_queue, text_to_speech_queue, caller_id,
                    message_call, chat_history, process_pc, msg_pc, pb_pc,
                    msg_local, llm_inflight, llm_response, tts_text,
                    tts_chunks, running_task, tts_tasks, tts_calls, tts_puts,
                    playing, chunks_sent, accepted, consumed, unread,
                    last_transcript>>
    /\ UNCHANGED <<sinkVars, threadVars, variantVars>>

\* _message_sending_loop: the awaited get_chat_response raises; neither it
\* nor the loop has an except clause, so the exception ends the task
MessageLoopChatFails ==
    /\ msg_pc = "llm"
    /\ llm_inflight' = llm_inflight - 1
    /\ msg_pc' = "failed"
    /\ UNCHANGED <<vc, audio_queue, speech_to_text_queue,
                    text_to_speech_queue, caller_id, message_call,
                    chat_history, worker_pc, process_pc, pb_pc, msg_local,
                    llm_response, tts_text, tts_chunks, running_task,
                    tts_tasks, tts_calls, tts_puts, playing, chunks_sent,
                    accepted, consumed, unread, last_transcript>>
    /\ UNCHANGED <<sinkVars, threadVars, variantVars>>

\* a get_text_to_speech call raises; the exception is kept in its task, and
\* is lost with the task when nobody awaits it
TextToSpeechFails(t) ==
    /\ t \in tts_tasks
    /\ ~t.done
    /\ tts_tasks' = IF t.kind = "run"
                    THEN (tts_tasks \ {t})
                            \cup {[t EXCEPT !.kind = "raised", !.done = TRUE]}
                    ELSE tts_tasks \ {t}
    /\ UNCHANGED <<vc, audio_queue, speech_to_text_queue,
                    text_to_speech_queue, caller_id, message_call,
                    chat_history, worker_pc, process_pc, msg_pc, pb_pc,
                    msg_local, llm_inflight, llm_response, tts_text,
                    tts_chunks, running_task, tts_calls, tts_puts, playing,
                    chunks_sent, accepted, consumed, unread, last_transcript>>
    /\ UNCHANGED <<sinkVars, threadVars, variantVars>>

\* the task _process_response awaits, ended by an exception
RaisedTask == [gen |-> consumed, k |-> running_task, kind |-> "raised", done |-> TRUE]

\* _process_response: "await running_task" re-raises the task's exception,
\* which leaves _process_response and _message_sending_loop
ProcessResponseRaises ==
    /\ msg_pc = "tts"
    /\ RaisedTask \in tts_tasks
    /\ tts_tasks' = tts_tasks \ {RaisedTask}
    /\ msg_pc' = "failed"
    /\ UNCHANGED <<vc, audio_queue, speech_to_text_queue,
                    text_to_speech_queue, caller_id, message_call,
                    chat_history, worker_pc, process_pc, pb_pc, msg_local,
                    llm_inflight, llm_response, tts_text, tts_chunks,
                    running_task, tts_calls, tts_puts, playing, chunks_sent,
                    accepted, consumed, unread, last_transcript>>
    /\ UNCHANGED <<sinkVars, threadVars, variantVars>>

\* the queue after "await queue.put(None)" of stop_listening, which is reached
\* only when client.close() could be awaited
PutMarker(queue, close_raises) ==
    IF close_raises THEN queue ELSE Append(queue, NoneItem)

\* VoiceAssistant.stop_listening up to "await vc.disconnect()": cancel() on
\* the loop and the transcript task, audio_sink.cleanup(), then
\* "await client.close()" and the two puts inside the try; close_raises says
\* whether awaiting client.close() raised (caught and logged at 377-378)
StopListening(close_raises) ==
    /\ vc
    /\ ~cleaned
    /\ msg_pc' = IF msg_pc \in {"crashed", "failed"} THEN msg_pc ELSE "cancelled"
    /\ process_pc' = "cancelled"
    /\ llm_inflight' = 0
    /\ tts_tasks' = { t \in tts_tasks : t.kind = "prefetch" }
    /\ timer' = [u \in Speakers |-> FALSE]
    /\ user_sinks' = {}
    /\ cleaned' = TRUE
    /\ flush_call' = <<>>
    /\ audio_queue' = PutMarker(audio_queue, close_raises)
    /\ speech_to_text_queue' = PutMarker(speech_to_text_queue, close_raises)
    /\ UNCHANGED <<vc, text_to_speech_queue, caller_id, message_call,
                    chat_history, worker_pc, pb_pc, msg_local, llm_response,
                    tts_text, tts_chunks, running_task, tts_calls, tts_puts,
                    playing, chunks_sent, accepted, consumed, unread,
                    last_transcript>>
    /\ UNCHANGED <<buffer, buffer_pointer, flushed, frames_written, timer_fired,
                   pk, timer_threads>>
    /\ UNCHANGED variantVars

\* stop_listening: vc.disconnect() returns and audio_sink.vc is set to None
StopListeningDisconnect ==
    /\ vc
    /\ cleaned
    /\ vc' = FALSE
    /\ playing' = FALSE
    /\ UNCHANGED <<audio_queue, speech_to_text_queue, text_to_speech_queue,
                    caller_id, message_call, chat_history, worker_pc,
                    process_pc, msg_pc, pb_pc, msg_local, llm_inflight,
                    llm_response, tts_text, tts_chunks, running_task,
                    tts_tasks, tts_calls, tts_puts, chunks_sent, accepted,
                    consumed, unread, last_transcript>>
    /\ UNCHANGED <<sinkVars, threadVars, variantVars>>

\* _play_response_on_channel: "audio_sink.vc.is_playing()" after
\* stop_listening has set audio_sink.vc to None raises AttributeError
PlayWaitRaises ==
    /\ pb_pc = "wait"
    /\ ~vc
    /\ pb_pc' = "failed"
    /\ UNCHANGED <<vc, audio_queue, speech_to_text_queue,
                    text_to_speech_queue, caller_id, message_call,
                    chat_history, worker_pc, process_pc, msg_pc, msg_local,
                    llm_inflight, llm_response, tts_text, tts_chunks,
                    running_task, tts_tasks, tts_calls, tts_puts, playing,
                    chunks_sent, accepted, consumed, unread, last_transcript>>
    /\ UNCHANGED <<sinkVars, threadVars, variantVars>>

(***************************************************************************)
(* A second session: listen called again after stop_listening. listen      *)
(* creates four new tasks; the worker and playback tasks of the first      *)
(* session are neither cancelled by stop_listening nor ended by listen.    *)
(***************************************************************************)

\* bound: audio chunks flushed over the two sessions
MaxRestartChunks == 1

\* the flush callback over the two sessions
SendToRestartedQueue(u) == SendChunk(u, MaxRestartChunks)

\* the pipeline's variables that the playback tasks leave alone
pipeVarsButPlayback ==
    <<vc, audio_queue, speech_to_text_queue, caller_id, message_call,
      chat_history, worker_pc, process_pc, msg_pc, pb_pc, msg_local,
      llm_inflight, llm_response, tts_text, tts_chunks, running_task,
      tts_tasks, tts_calls, tts_puts, chunks_sent, accepted, consumed, unread,
      last_transcript>>

RestartInit ==
    /\ restarted = FALSE
    /\ old_worker_pc = "off"
    /\ old_pb_pc = "off"

\* VoiceAssistant.listen and vc.start_recording after stop_listening has
\* returned: four new tasks, each with fresh locals; the queues and the
\* shared state dictionary are the ones of the first session. A worker task
\* that stop_listening has woken with an item has run before the command
\* is handled.
ListenAgain ==
    /\ ~vc
    /\ cleaned
    /\ ~restarted
    /\ ~(worker_pc = "get" /\ audio_queue # <<>>)
    /\ vc' = TRUE
    /\ cleaned' = FALSE
    /\ restarted' = TRUE
    /\ old_worker_pc' = worker_pc
    /\ old_pb_pc' = pb_pc
    /\ msg_pc' = "top"
    /\ worker_pc' = "get"
    /\ process_pc' = "get"
    /\ pb_pc' = "get"
    /\ msg_local' = <<>>
    /\ llm_response' = <<>>
    /\ tts_text' = <<>>
    /\ tts_chunks' = <<>>
    /\ tts_calls' = <<>>
    /\ tts_puts' = <<>>
    /\ running_task' = 0
    /\ UNCHANGED <<audio_queue, speech_to_text_queue, text_to_speech_queue,
                   caller_id, message_call, chat_history, llm_inflight,
                   tts_tasks, playing, chunks_sent, accepted, consumed, unread,
                   last_transcript>>
    /\ UNCHANGED <<sinkVars, pk, timer_threads, energyVars, graphVars>>

\* _process_transcriptions: the result is None, the loop breaks and the
\* task ends
ProcessTranscriptionsExit ==
    /\ process_pc = "get"
    /\ speech_to_text_queue # <<>>
    /\ Head(speech_to_text_queue) = NoneItem
    /\ speech_to_text_queue' = Tail(speech_to_text_queue)
    /\ process_pc' = "done"
    /\ UNCHANGED <<vc, audio_queue, text_to_speech_queue, caller_id,
                   message_call, chat_history, worker_pc, msg_pc, pb_pc,
                   msg_local, llm_inflight, llm_response, tts_text, tts_chunks,
                   running_task, tts_tasks, tts_calls, tts_puts, playing,
                   chunks_sent, accepted, consumed, unread, last_transcript>>
    /\ UNCHANGED <<sinkVars, threadVars, variantVars>>

\* _process_transcriptions with a result that is not None
ProcessTranscriptionsItem ==
    /\ speech_to_text_queue # <<>>
    /\ Head(speech_to_text_queue) # NoneItem
    /\ ProcessTranscriptions

\* _play_response_on_channel while no other playback task's unit is playing
PlayResponseFree ==
    /\ ~(vc /\ playing)
    /\ PlayResponse

\* _play_response_on_channel: vc.play raises ClientException because the
\* voice client is playing the unit of the other playback task; the
\* exception ends the task and the unit is lost
PlayResponseRaises ==
    /\ pb_pc = "get"
    /\ text_to_speech_queue # <<>>
    /\ vc
    /\ playing
    /\ text_to_speech_queue' = Tail(text_to_speech_queue)
    /\ pb_pc' = "failed"
    /\ UNCHANGED <<vc, audio_queue, speech_to_text_queue, caller_id,
                   message_call, chat_history, worker_pc, process_pc, msg_pc,
                   msg_local, llm_inflight, llm_response, tts_text, tts_chunks,
                   running_task, tts_tasks, tts_calls, tts_puts, playing,
                   chunks_sent, accepted, consumed, unread, last_transcript>>
    /\ UNCHANGED <<sinkVars, threadVars, variantVars>>

\* the _play_response_on_channel task of the first session takes a unit:
\* it plays it, or vc.play raises because a unit is playing
OldPlayResponse ==
    /\ old_pb_pc = "get"
    /\ text_to_speech_queue # <<>>
    /\ text_to_speech_queue' = Tail(text_to_speech_queue)
    /\ IF ~vc THEN UNCHANGED <<playing, old_pb_pc>>
       ELSE IF playing THEN old_pb_pc' = "failed" /\ UNCHANGED playing
       ELSE playing' = TRUE /\ old_pb_pc' = "wait"
    /\ UNCHANGED <<restarted, old_worker_pc>>
    /\ UNCHANGED pipeVarsButPlayback
    /\ UNCHANGED <<sinkVars, threadVars, energyVars, graphVars>>

\* the playback task of the first session: "while vc.is_playing()" sees
\* False; or audio_sink.vc is None and the attribute access raises
OldPlayWaitEnds ==
    /\ old_pb_pc = "wait"
    /\ IF vc THEN ~IsPlaying /\ old_pb_pc' = "get"
             ELSE old_pb_pc' = "failed"
    /\ UNCHANGED <<restarted, old_worker_pc>>
    /\ UNCHANGED <<text_to_speech_queue, playing>>
    /\ UNCHANGED pipeVarsButPlayback
    /\ UNCHANGED <<sinkVars, threadVars, energyVars, graphVars>>

(***************************************************************************)
(* Graph-based agent: voice_assistant/agent.py                             *)
(***************************************************************************)

\* bound: graph runs started (one per flushed chunk)
MaxRuns == 2

Runs == 1..MaxRuns

\* transcripts transcribe_pcm returns for the chunks: "ALWIN", "hi", ""
GraphMessages == { <<"A","L","W","I","N">>, <<"h","i">>, <<>> }

\* responses the language model returns: "Bye True", "a.b", "! True", ""
GraphResponses ==
    { <<"B","y","e"," ","T","r","u","e">>,
      <<"a",".","b">>,
      <<"!"," ","T","r","u","e">>,
      <<>> }

\* a run that has not been started
IdleRun ==
    [pc |-> "idle", speaker |-> NoCaller, message |-> <<>>, segments |-> <<>>,
     synth |-> "off", k |-> 0, queue |-> <<>>, puts |-> <<>>, ready |-> FALSE,
     play |-> "off", unit |-> 0]

\* VoiceAssistant.__init__ of agent.py
GraphInit ==
    /\ g_caller_id = NoCaller
    /\ g_chat_history = <<>>
    /\ runs = [r \in Runs |-> IdleRun]
    /\ vc_playing = 0

\* the callback of the sink: run_coroutine_threadsafe(graph.ainvoke(...)) for
\* a chunk of speaker u; the runs are started in the order of the flushes
GraphInvoke(r, u) ==
    /\ runs[r].pc = "idle"
    /\ r > 1 => runs[r - 1].pc # "idle"
    /\ runs' = [runs EXCEPT ![r].pc = "transcribe", ![r].speaker = u]
    /\ UNCHANGED <<g_caller_id, g_chat_history, vc_playing>>
    /\ UNCHANGED <<sinkVars, threadVars, pipeVars, energyVars, restartVars>>

\* process_transcription, the conditional edge after transcribe_audio; tr is
\* the transcription: <<>> for None, <<message>> otherwise
ProcessTranscription(cid, speaker, tr) ==
    IF tr = <<>> THEN "end_call"
    ELSE IF cid # NoCaller
    THEN (IF cid = speaker THEN "process_call" ELSE "end_call")
    ELSE IF HasActivateWord(tr[1]) THEN "process_call" ELSE "end_call"

\* node transcribe_audio and its conditional edge process_transcription
TranscribeAudio(r, tr) ==
    /\ runs[r].pc = "transcribe"
    /\ runs' = IF ProcessTranscription(g_caller_id, runs[r].speaker, tr) = "process_call"
               THEN [runs EXCEPT ![r].pc = "update", ![r].message = tr[1]]
               ELSE [runs EXCEPT ![r].pc = "end"]
    /\ UNCHANGED <<g_caller_id, g_chat_history, vc_playing>>
    /\ UNCHANGED <<sinkVars, threadVars, pipeVars, energyVars, restartVars>>

\* node update_caller_info
UpdateCallerInfo(r) ==
    /\ runs[r].pc = "update"
    /\ g_caller_id' = runs[r].speaker
    /\ runs' = [runs EXCEPT ![r].pc = "generate"]
    /\ UNCHANGED <<g_chat_history, vc_playing>>
    /\ UNCHANGED <<sinkVars, threadVars, pipeVars, energyVars, restartVars>>

\* node generate_response up to the await of get_chat_response; with an
\* empty message it returns None, and the nodes after it find no "response"
\* in the State (KeyError)
GenerateResponse(r) ==
    /\ runs[r].pc = "generate"
    /\ IF runs[r].message # <<>>
       THEN /\ g_chat_history' = GetContext(g_chat_history, runs[r].message)
            /\ runs' = [runs EXCEPT ![r].pc = "llm"]
       ELSE /\ runs' = [runs EXCEPT ![r].pc = "failed"]
            /\ UNCHANGED g_chat_history
    /\ UNCHANGED <<g_caller_id, vc_playing>>
    /\ UNCHANGED <<sinkVars, threadVars, pipeVars, energyVars, restartVars>>

\* variant: an event that is created set
NewEventSet == TRUE

\* asyncio.Event() of generate_response's return value: not set
NewEvent == FALSE

\* node generate_response from the return of get_chat_response: the appends
\* and _check_chat_status (IndexError on a response without a token); then
\* synthesize_audio and play_response are started, the latter up to its
\* await of playback_ready
GenerateResponseResume(r, response) ==
    /\ runs[r].pc = "llm"
    /\ IF ~HasToken(response)
       THEN /\ g_chat_history' = AppendReply(g_chat_history, response)
            /\ runs' = [runs EXCEPT ![r].pc = "failed"]
            /\ UNCHANGED g_caller_id
       ELSE /\ g_chat_history' = HistoryAfterResponse(g_chat_history, response)
            /\ g_caller_id' = CallerAfterResponse(g_caller_id, response)
            /\ runs' = [runs EXCEPT
                           ![r].pc = "speak",
                           ![r].segments =
                               StripSegments(FindSegments(CheckChatStatus(response))),
                           ![r].synth = "start",
                           ![r].ready = NewEvent,
                           ![r].play = "wait"]
    /\ UNCHANGED vc_playing
    /\ UNCHANGED <<sinkVars, threadVars, pipeVars, energyVars, restartVars>>

\* variant: a terminal marker after every segment
MarkerAfterEach(k, n) == <<NoneItem>>

\* synthesize_audio: the terminal marker, put once the last segment is
\* enqueued
MarkerAfter(k, n) == IF k = n THEN <<NoneItem>> ELSE <<>>

\* node synthesize_audio up to its first await: get_text_to_speech of the
\* first segment, or the marker alone when there is no segment
SynthesizeAudio(r) ==
    /\ runs[r].pc = "speak"
    /\ runs[r].synth = "start"
    /\ runs' = IF runs[r].segments = <<>>
               THEN [runs EXCEPT ![r].synth = "done",
                                 ![r].queue = Append(@, NoneItem),
                                 ![r].puts = Append(@, NoneItem)]
               ELSE [runs EXCEPT ![r].synth = "tts", ![r].k = 1]
    /\ UNCHANGED <<g_caller_id, g_chat_history, vc_playing>>
    /\ UNCHANGED <<sinkVars, threadVars, pipeVars, energyVars, restartVars>>

\* synthesize_audio from the return of get_text_to_speech for segment k: the
\* put, playback_ready.set() after the first, then the next call or the
\* marker
SynthesizeAudioResume(r) ==
    /\ runs[r].pc = "speak"
    /\ runs[r].synth = "tts"
    /\ LET k    == runs[r].k
           n    == Len(runs[r].segments)
           unit == <<Audio(k, runs[r].segments[k])>> \o MarkerAfter(k, n)
       IN  runs' = [runs EXCEPT
                       ![r].queue = @ \o unit,
                       ![r].puts = @ \o unit,
                       ![r].ready = TRUE,
                       ![r].k = IF k < n THEN k + 1 ELSE k,
                       ![r].synth = IF k < n THEN "tts" ELSE "done"]
    /\ UNCHANGED <<g_caller_id, g_chat_history, vc_playing>>
    /\ UNCHANGED <<sinkVars, threadVars, pipeVars, energyVars, restartVars>>

\* play_response_on_channel: playback_ready.wait() returns
PlaybackReady(r) ==
    /\ runs[r].play = "wait"
    /\ runs[r].ready
    /\ runs' = [runs EXCEPT ![r].play = "get"]
    /\ UNCHANGED <<g_caller_id, g_chat_history, vc_playing>>
    /\ UNCHANGED <<sinkVars, threadVars, pipeVars, energyVars, restartVars>>

\* play_response_on_channel: output_audio_queue.get() returns a unit; the
\* marker ends the node, audio is played; vc.play raises when the voice
\* client is already playing the unit of another run, and the graph run
\* ends with the exception: a synthesize_audio still at an await of the same
\* run goes on or is cancelled with it
PlayChunk(r) ==
    /\ runs[r].play = "get"
    /\ runs[r].queue # <<>>
    /\ LET chunk == Head(runs[r].queue)
       IN  IF chunk = NoneItem
           THEN /\ runs' = [runs EXCEPT ![r].queue = Tail(@), ![r].play = "done"]
                /\ UNCHANGED vc_playing
           ELSE IF vc_playing # 0
           THEN /\ \E cancelled \in BOOLEAN :
                    runs' = [runs EXCEPT
                                ![r].queue = Tail(@),
                                ![r].play = "failed",
                                ![r].synth = IF cancelled /\ @ = "tts"
                                             THEN "cancelled" ELSE @]
                /\ UNCHANGED vc_playing
           ELSE /\ runs' = [runs EXCEPT ![r].queue = Tail(@), ![r].play = "playing",
                                        ![r].unit = chunk.chunk]
                /\ vc_playing' = r
    /\ UNCHANGED <<g_caller_id, g_chat_history>>
    /\ UNCHANGED <<sinkVars, threadVars, pipeVars, energyVars, restartVars>>

\* the voice client finishes the unit it plays
GraphPlayEnds ==
    /\ vc_playing # 0
    /\ vc_playing' = 0
    /\ UNCHANGED <<g_caller_id, g_chat_history, runs>>
    /\ UNCHANGED <<sinkVars, threadVars, pipeVars, energyVars, restartVars>>

\* play_response_on_channel: "while self.audio_sink.vc.is_playing()" sees
\* False
PlayChunkEnds(r) ==
    /\ runs[r].play = "playing"
    /\ vc_playing = 0
    /\ runs' = [runs EXCEPT ![r].play = "get"]
    /\ UNCHANGED <<g_caller_id, g_chat_history, vc_playing>>
    /\ UNCHANGED <<sinkVars, threadVars, pipeVars, energyVars, restartVars>>

\* the pipeline, fed by flush callbacks
Next ==
    \/ Listen
    \/ \E u \in Speakers : SendToSpeechToTextQueue(u)
    \/ \E tr \in {<<>>} \cup {<<m>> : m \in Messages} : TranscriptionWorker(tr)
    \/ ProcessTranscriptions
    \/ MessageLoopTop
    \/ \E r \in Responses : MessageLoopResponse(r)
    \/ \E t \in tts_tasks : TextToSpeechCompletes(t)
    \/ ProcessResponseResume
    \/ MessageLoopWake
    \/ PlayResponse
    \/ PlayEnds
    \/ PlayWaitEnds

Init == SinkInit /\ ThreadInit /\ PipeInit /\ EnergyInit /\ GraphInit /\ RestartInit

Spec == Init /\ [][Next]_vars

\* the graph-based agent on a connected session
NextGraph ==
    \/ \E r \in Runs, u \in Speakers : GraphInvoke(r, u)
    \/ \E r \in Runs, tr \in {<<>>} \cup {<<m>> : m \in GraphMessages} :
          TranscribeAudio(r, tr)
    \/ \E r \in Runs : UpdateCallerInfo(r)
    \/ \E r \in Runs : GenerateResponse(r)
    \/ \E r \in Runs, response \in GraphResponses : GenerateResponseResume(r, response)
    \/ \E r \in Runs : SynthesizeAudio(r)
    \/ \E r \in Runs : SynthesizeAudioResume(r)
    \/ \E r \in Runs : PlaybackReady(r)
    \/ \E r \in Runs : PlayChunk(r)
    \/ GraphPlayEnds
    \/ \E r \in Runs : PlayChunkEnds(r)

SpecGraph == Init /\ [][NextGraph]_vars

\* the energy-policy sink alone
NextEnergy ==
    \/ \E u \in Speakers : EnergyWriteLockedOut(u)
    \/ \E u \in Speakers : EnergyWriteMalformed(u)
    \/ \E u \in Speakers, energy \in Energies, activates \in BOOLEAN :
          EnergyWriteFrame(u, energy, activates)
    \/ EnergyEndOfTurn

SpecEnergy == Init /\ [][NextEnergy]_vars

\* the capture and transcription stages alone: flushes of the speakers in
\* any interleaving, the worker, and the transcript task draining its queue
NextTranscribe ==
    \/ Listen
    \/ \E u \in Speakers : SendToAudioQueue(u)
    \/ \E tr \in {<<>>} \cup {<<m>> : m \in Messages} : TranscriptionWorker(tr)
    \/ ProcessTranscriptions

SpecTranscribe == Init /\ [][NextTranscribe]_vars

\* the pipeline with failing external calls and the session's stop
NextSession ==
    \/ Next
    \/ TranscriptionWorkerExit
    \/ TranscriptionWorkerFails
    \/ MessageLoopChatFails
    \/ \E t \in tts_tasks : TextToSpeechFails(t)
    \/ ProcessResponseRaises
    \/ \E close_raises \in BOOLEAN : StopListening(close_raises)
    \/ StopListeningDisconnect
    \/ PlayWaitRaises

SpecSession == Init /\ [][NextSession]_vars

\* a session, its end, and a second session on the same assistant
NextRestart ==
    \/ Listen
    \/ \E u \in Speakers : SendToRestartedQueue(u)
    \/ \E tr \in {<<>>} \cup {<<m>> : m \in Messages} : TranscriptionWorker(tr)
    \/ TranscriptionWorkerExit
    \/ ProcessTranscriptionsItem
    \/ ProcessTranscriptionsExit
    \/ MessageLoopTop
    \/ \E r \in Responses : MessageLoopResponse(r)
    \/ \E t \in tts_tasks : TextToSpeechCompletes(t)
    \/ ProcessResponseResume
    \/ MessageLoopWake
    \/ PlayResponseFree
    \/ PlayResponseRaises
    \/ PlayEnds
    \/ PlayWaitEnds
    \/ PlayWaitRaises
    \/ \E close_raises \in BOOLEAN : ~restarted /\ StopListening(close_raises)
    \/ StopListeningDisconnect
    \/ ListenAgain
    \/ OldPlayResponse
    \/ OldPlayWaitEnds

SpecRestart == Init /\ [][NextRestart]_vars

\* MultiAudioSink.write(data, u) with len(data) = len, whatever the packet is
MultiAudioSinkWrite(u, len) ==
    \/ WriteOversized(u, len)
    \/ WriteMalformed(u, len)
    \/ WriteFrame(u, len)

\* the capture sink alone
NextSink ==
    \/ WriteNoUser
    \/ \E u \in Speakers, len \in PacketLens :
          \/ WriteOversized(u, len)
          \/ WriteMalformed(u, len)
          \/ WriteFrame(u, len)
    \/ \E u \in Speakers : TimeoutFlush(u)

SpecSink == Init /\ [][NextSink]_vars

\* the capture sink with its threads
NextThreads ==
    \/ \E u \in Speakers, len \in PacketLens : ProcessDataBegin(u, len)
    \/ ProcessDataHardCap
    \/ FillBufferStart
    \/ FillBufferStore
    \/ FillBufferLoad
    \/ FillBufferInc
    \/ ProcessDataStartTimer
    \/ \E u \in Speakers : TimerRun(u)
    \/ \E t \in timer_threads : TimeoutFlushCheck(t)
    \/ \E t \in timer_threads : TimeoutFlushSnapshot(t)
    \/ \E t \in timer_threads : TimeoutFlushCall(t)
    \/ \E t \in timer_threads : ClearBufferFill(t)
    \/ \E t \in timer_threads : ClearBufferReset(t)
    \/ Cleanup

SpecThreads == Init /\ [][NextThreads]_vars

(***************************************************************************)
(* Claims                                                                  *)
(***************************************************************************)

\* the frames fill_buffer has stored for speaker u, in order
FramesWritten(u) == [k \in 1..frames_written[u] |-> FrameOf(k)]

\* the frames still in the buffer of speaker u
FramesBuffered(u) == SubSeq(BufferArray(buffer[u]), 1, buffer_pointer[u])

\* C1: for every speaker, the payloads handed to the flush callback,
\* concatenated in flush order, followed by the frames still buffered, are
\* exactly the frames written so far: nothing duplicated, dropped or padded,
\* for a timeout flush and for a hard-cap flush alike.
C1_FlushedIsWritten ==
    \A u \in Speakers : flushed[u] \o FramesBuffered(u) = FramesWritten(u)

\* a step of _process_transcriptions: the only step that takes the head of
\* the transcript queue
GateStep ==
    /\ speech_to_text_queue # <<>>
    /\ speech_to_text_queue' = Tail(speech_to_text_queue)

\* C2: while caller_id = s, a transcript from a speaker other than s leaves
\* caller_id, message_call and chat_history as they are.
C2_OtherSpeakerDiscarded ==
    [][ ( /\ GateStep
          /\ caller_id # NoCaller
          /\ Head(speech_to_text_queue).speaker # caller_id )
        => UNCHANGED <<caller_id, message_call, chat_history>> ]_vars

\* C2 witness: the gate is locked to a speaker and the transcript processed
\* last came from another speaker
C2_Witness ==
    /\ caller_id # NoCaller
    /\ last_transcript # <<>>
    /\ last_transcript[1].speaker # caller_id
    /\ message_call # <<>>
    /\ message_call[1].speaker = caller_id

\* a step in which the loop receives the model's response and evaluates it
ResponseStep == msg_pc = "llm" /\ msg_pc' # "llm"

\* the whitespace-delimited tokens of a text but the last one
AllButLastToken(text) == SubSeq(Split(text), 1, Len(Split(text)) - 1)

\* C3: when the response's last token is the sentinel, the text handed to
\* synthesis is the response without that token, also when the response is
\* the sentinel alone.
C3_SentinelStripped ==
    ( /\ llm_response # <<>>
      /\ HasToken(llm_response[1])
      /\ EndsTurn(llm_response[1]) )
    => ( /\ tts_text # <<>>
         /\ Split(tts_text[1]) = AllButLastToken(llm_response[1]) )

\* C4: when the response ends with the sentinel, the step that evaluates it
\* leaves caller_id None and chat_history empty.
C4_EndOfTurn ==
    [][ ( /\ ResponseStep
          /\ HasToken(llm_response'[1])
          /\ EndsTurn(llm_response'[1]) )
        => ( caller_id' = NoCaller /\ chat_history' = <<>> ) ]_vars

\* C4 witness: a second exchange ended the turn, with the goodbye being
\* synthesized
C4_Witness ==
    /\ msg_pc = "tts"
    /\ consumed = 2
    /\ llm_response = << <<"B","y","e"," ","T","r","u","e">> >>
    /\ caller_id = NoCaller
    /\ chat_history = <<>>

\* a response whose last token is not the sentinel (one without any token
\* included)
NonTerminal(response) == ~(HasToken(response) /\ EndsTurn(response))

\* C5: when the response does not end with the sentinel, the step that
\* evaluates it leaves the gate locked to the same speaker, keeps the history
\* (extending it), and hands the response unchanged to synthesis (a response
\* without any token has no chunk, and nothing is synthesized for it); and a
\* transcript of another speaker processed while the gate is locked leaves
\* caller_id and message_call as they are.
C5_NonTerminal ==
    /\ [][ ( ResponseStep /\ NonTerminal(llm_response'[1]) )
            => ( /\ caller_id # NoCaller
                 /\ caller_id' = caller_id
                 /\ Len(chat_history') > Len(chat_history)
                 /\ SubSeq(chat_history', 1, Len(chat_history)) = chat_history
                 /\ IF HasToken(llm_response'[1])
                    THEN /\ tts_text' = llm_response'
                         /\ tts_chunks' = Chunks(llm_response'[1])
                    ELSE /\ Chunks(llm_response'[1]) = <<>>
                         /\ tts_tasks' = tts_tasks ) ]_vars
    /\ [][ ( /\ GateStep
              /\ caller_id # NoCaller
              /\ Head(speech_to_text_queue).speaker # caller_id )
            => ( caller_id' = caller_id /\ message_call' = message_call ) ]_vars

\* C5 witness: 42 holds the turn, the transcript of 7 was discarded, and
\* "I'm fine." is being synthesized whole
C5_Witness ==
    /\ msg_pc = "tts"
    /\ caller_id = 42
    /\ last_transcript # <<>>
    /\ last_transcript[1].speaker = 7
    /\ llm_response = << <<"I","'","m"," ","f","i","n","e",".">> >>
    /\ tts_text = llm_response
    /\ chat_history # <<>>
    /\ message_call # <<>>
    /\ message_call[1].speaker = 42

\* transcripts that contain an activation word in some letter case
C6_Activating ==
    { <<"h","e","y"," ","A","l","v","i","n">>, <<"A","L","W","I","N">> }

\* C6: in IDLE a transcript that contains an activation word, in any letter
\* case, locks the gate to its speaker and becomes the pending message.
C6_Activation ==
    [][ ( /\ GateStep
          /\ caller_id = NoCaller
          /\ Head(speech_to_text_queue).message \in C6_Activating )
        => ( /\ caller_id' = Head(speech_to_text_queue).speaker
             /\ message_call' = <<Head(speech_to_text_queue)>> ) ]_vars

\* C6 witness: "hey Alvin" was the first transcript stored and holds the turn
C6_Witness ==
    /\ accepted = 1
    /\ last_transcript # <<>>
    /\ last_transcript[1].message = <<"h","e","y"," ","A","l","v","i","n">>
    /\ caller_id = last_transcript[1].speaker
    /\ message_call = last_transcript

\* transcripts that contain no activation word
C7_NotActivating == { <<"h","i">>, <<>> }

\* C7: in IDLE a transcript without activation word changes neither
\* caller_id nor message_call nor chat_history.
C7_IdleDiscard ==
    [][ ( /\ GateStep
          /\ caller_id = NoCaller
          /\ Head(speech_to_text_queue).message \in C7_NotActivating )
        => UNCHANGED <<caller_id, message_call, chat_history>> ]_vars

\* C7 witness: "hi" was processed and the gate is still idle with nothing stored
C7_Witness ==
    /\ last_transcript # <<>>
    /\ last_transcript[1].message = <<"h","i">>
    /\ caller_id = NoCaller
    /\ message_call = <<>>
    /\ accepted = 0

\* C8: every transcript the gate stored has been read by the
\* response-generation loop or is still waiting in message_call to be read;
\* none is overwritten or erased unread.
C8_NoAcceptedLost ==
    accepted = consumed + (IF unread THEN 1 ELSE 0)

\* C9: the audio put on the playback queue for the current response is the
\* audio of its chunks in index order, each once, and all of them once
\* _process_response has returned.
C9_SegmentOrder ==
    /\ Len(tts_puts) <= Len(tts_chunks)
    /\ \A j \in 1..Len(tts_puts) : tts_puts[j] = Audio(j, tts_chunks[j])
    /\ msg_pc # "tts" => Len(tts_puts) = Len(tts_chunks)

\* C9 witness: a response of three chunks has been put completely
C9_Witness ==
    /\ msg_pc = "sleep"
    /\ Len(tts_chunks) = 3
    /\ Len(tts_puts) = 3

\* C10: at most one generation is in flight, and chat_history changes only
\* in steps of the response-generation loop.
C10_SingleGeneration ==
    /\ [](llm_inflight <= 1)
    /\ [][chat_history' # chat_history => msg_pc' # msg_pc]_vars

\* C10 witness: a generation is in flight over a history that holds an
\* earlier exchange
C10_Witness ==
    /\ llm_inflight = 1
    /\ msg_pc = "llm"
    /\ Len(chat_history) > 2

\* the number of hard-cap flushes of a speaker whose timer never fired: every
\* hard-cap payload is the whole array
HardCapFlushes(u) == Len(flushed[u]) \div ALLOC_FRAME_COUNT

\* n well-formed frames have arrived for speaker u and no timer fired
NoTimerScenario(u, n) == frames_written[u] = n /\ ~timer_fired[u]

\* C11 as stated: after 301 frames without a timer firing exactly one flush
\* has occurred, not before the 301st frame arrived, and the buffer holds 1
\* frame.
C11_FlushBefore301st ==
    \A u \in Speakers :
        /\ NoTimerScenario(u, 300) => HardCapFlushes(u) = 0
        /\ NoTimerScenario(u, 301) =>
              HardCapFlushes(u) = 1 /\ buffer_pointer[u] = 1

\* C11 amended: without a timer firing, the first 299 frames are buffered
\* without a flush; the flush occurs when the 300th frame arrives, before it
\* is stored; after the 301st frame exactly one flush has occurred and the
\* buffer holds 2 frames.
C11_FlushBefore300th ==
    \A u \in Speakers :
        /\ (~timer_fired[u] /\ frames_written[u] < BUFFER_FRAME_COUNT) =>
              HardCapFlushes(u) = 0 /\ buffer_pointer[u] = frames_written[u]
        /\ NoTimerScenario(u, 300) =>
              HardCapFlushes(u) = 1 /\ buffer_pointer[u] = 1
        /\ NoTimerScenario(u, 301) =>
              HardCapFlushes(u) = 1 /\ buffer_pointer[u] = 2

\* C11 witness: the scenario's end, 301 frames of speaker 42 and no timer
\* fired
C11_Witness ==
    /\ NoTimerScenario(42, 301)
    /\ Len(flushed[42]) = ALLOC_FRAME_COUNT
    /\ buffer_pointer[42] = 2

\* C13 as stated: the cursor stays strictly below capacity - margin for a
\* margin of 1.
C13_BelowCapacityMinusMargin ==
    \A u \in Speakers : buffer_pointer[u] < BUFFER_FRAME_COUNT - 1

\* C13 amended: the cursor never exceeds capacity - 1 (it stays strictly
\* below the capacity of 300), and a frame is only stored at a cursor strictly
\* below capacity - 1.
C13_BelowCapacity ==
    /\ \A u \in Speakers : buffer_pointer[u] <= BUFFER_FRAME_COUNT - 1
    /\ \A u \in Speakers : Len(buffer[u]) <= BUFFER_FRAME_COUNT - 1

\* C13 witness: the buffer holds capacity - 1 frames after a write
C13_Witness ==
    /\ buffer_pointer[42] = BUFFER_FRAME_COUNT - 1
    /\ timer[42]
    /\ frames_written[42] = BUFFER_FRAME_COUNT - 1

\* C15: a packet of at most 3840 bytes that is not exactly one frame leaves
\* every buffer and cursor as they are, and the flush callback is not called.
C15_MalformedDropped ==
    [][ ( \E u \in Speakers, len \in PacketLens :
             /\ len <= MAX_PACKET_BYTES
             /\ len # FrameBytes
             /\ MultiAudioSinkWrite(u, len) )
        => ( /\ UNCHANGED <<buffer, buffer_pointer, flushed, frames_written>>
             /\ flush_call' = <<>> ) ]_vars

\* C15 witness: two frames are buffered, no flush has happened, and the
\* timer is not pending: a malformed packet came after the frames
C15_Witness ==
    /\ buffer_pointer[42] = 2
    /\ buffer[42] = <<FrameOf(1), FrameOf(2)>>
    /\ ~timer[42]
    /\ ~timer_fired[42]
    /\ flushed[42] = <<>>
    /\ flush_call = <<>>

\* C16: a packet longer than 3840 bytes and a packet without speaker id
\* leave every speaker's buffer, cursor and pending timer as they are, and
\* the flush callback is not called.
C16_OversizedIgnored ==
    [][ ( \/ WriteNoUser
          \/ \E u \in Speakers, len \in PacketLens :
                len > MAX_PACKET_BYTES /\ MultiAudioSinkWrite(u, len) )
        => ( /\ UNCHANGED <<buffer, buffer_pointer, timer, flushed,
                            frames_written>>
             /\ flush_call' = <<>> ) ]_vars

\* C16 witness: speaker 7 has a sink that never stored a frame while the
\* timer of speaker 42 is pending over a buffered frame
C16_Witness ==
    /\ 7 \in user_sinks
    /\ frames_written[7] = 0
    /\ ~timer[7]
    /\ timer[42]
    /\ buffer_pointer[42] = 1

\* C12: the flush callback is never called with an empty payload, whatever
\* the interleaving of the receive thread and the Timer threads.
C12_FlushNeverEmpty ==
    flush_call # <<>> => flush_call[1].payload # <<>>

\* the receive thread is in the part of _process_data that reads or writes
\* the buffer of speaker u (hard-cap test to the cursor's increment)
InProcessData(u) ==
    pk.speaker = u /\ pk.pc \in {"cap", "start", "store", "load", "inc"}

\* a Timer thread is in the part of _timeout_flush that reads or writes the
\* buffer of speaker u (snapshot to the cursor's reset)
InTimeoutFlush(u) ==
    \E t \in TimerThreadsOf(u) : t.pc \in {"snapshot", "flush", "fill", "reset"}

\* C14: for one speaker, _process_data and _timeout_flush are never both
\* inside the sections that read and write the speaker's buffer.
C14_Serialized ==
    \A u \in Speakers : ~(InProcessData(u) /\ InTimeoutFlush(u))

\* C18: once MultiAudioSink.cleanup has returned, no timer is pending, no
\* Timer thread is still going to flush, and the flush callback is not
\* called.
C18_NoFlushAfterCleanup ==
    cleaned =>
        /\ \A u \in Speakers : ~timer[u]
        /\ flush_call = <<>>


\* stop_listening has returned
Stopped == cleaned /\ ~vc

\* the queue holds a termination marker
HasMarker(queue) == \E i \in 1..Len(queue) : queue[i] = NoneItem

\* C17: once stop_listening has returned, every stage task started by listen
\* has exited or will: it has ended, or the termination marker is in its input
\* queue (the response loop has no input queue and must have ended)
C17_ShutdownReachesEveryStage ==
    Stopped =>
        /\ worker_pc \in {"done", "failed"} \/ HasMarker(audio_queue)
        /\ process_pc = "cancelled" \/ HasMarker(speech_to_text_queue)
        /\ msg_pc \in {"cancelled", "crashed", "failed"}
        /\ pb_pc = "failed" \/ HasMarker(text_to_speech_queue)

\* C19: when the language-model call or an awaited text-to-speech call has
\* failed, the gate is IDLE: caller_id is None
C19_GateIdleAfterFailure == msg_pc = "failed" => caller_id = NoCaller

\* C20: the transcription worker is never ended by a failure of
\* transcribe_pcm, so it goes on taking chunks from audio_queue
C20_WorkerSurvivesSttFailure == worker_pc # "failed"

\* the playback task takes a unit from text_to_speech_queue in this step
PlaybackDequeues ==
    /\ pb_pc = "get"
    /\ Len(text_to_speech_queue') = Len(text_to_speech_queue) - 1

WorkerDequeues ==
    /\ worker_pc = "get"
    /\ Len(audio_queue') = Len(audio_queue) - 1

\* the chunk that leaves audio_queue in this step (chunk ids are the order
\* of the flushes)
ChunkTaken ==
    CHOOSE c \in {audio_queue[i] : i \in 1..Len(audio_queue)} :
        \A j \in 1..Len(audio_queue') : audio_queue'[j] # c

\* C22: the chunk handed to transcribe_pcm was flushed before every chunk of
\* the same speaker that is still waiting, and the waiting chunks of one
\* speaker are in flush order.
C22_PerSpeakerOrder ==
    /\ [][WorkerDequeues =>
             \A j \in 1..Len(audio_queue') :
                 audio_queue'[j].speaker = ChunkTaken.speaker
                     => audio_queue'[j].id > ChunkTaken.id]_vars
    /\ [](\A i, j \in 1..Len(audio_queue) :
             i < j /\ audio_queue[i].speaker = audio_queue[j].speaker
                 => audio_queue[i].id < audio_queue[j].id)

\* C22 witness: the first of two chunks of speaker 42 has been transcribed
\* while the second, flushed after a chunk of speaker 7, waits behind it
C22_Witness ==
    /\ chunks_sent = 3
    /\ audio_queue = <<[speaker |-> 7, id |-> 2], [speaker |-> 42, id |-> 3]>>
    /\ \E i \in 1..Len(speech_to_text_queue) : speech_to_text_queue[i].speaker = 42

\* C27: among the get_text_to_speech calls of one response, every call for a
\* chunk after the first comes after a call for the chunk before it.
C27_CallsInIndexOrder ==
    \A b \in 1..Len(tts_calls) :
        tts_calls[b] > 1 => \E a \in 1..(b - 1) : tts_calls[a] = tts_calls[b] - 1

\* role of the i-th entry of a well-formed history: system, then user and
\* assistant in turn
RoleAt(i) == IF i = 1 THEN "system" ELSE IF i % 2 = 0 THEN "user" ELSE "assistant"

\* C28: chat_history is [system, user, assistant, ..., user, assistant], with
\* the last user message awaiting its reply at most: no reply is recorded
\* twice.
C28_HistoryAlternates ==
    \A i \in 1..Len(chat_history) : chat_history[i].role = RoleAt(i)

\* what the claim of the energy policy says of one write of a well-formed
\* frame for speaker u, by the frame's energy and the buffer it meets
EnergyPolicyStep(u, energy) ==
    IF energy > SILENCE_THRESHOLD
    THEN /\ Len(buffers'[u]) = Len(buffers[u]) + 1
         /\ SubSeq(buffers'[u], 1, Len(buffers[u])) = buffers[u]
         /\ sink_flush' = <<>>
         /\ chunks_flushed' = chunks_flushed
    ELSE IF buffers[u] # <<>>
    THEN /\ Len(sink_flush') = 1
         /\ sink_flush'[1].speaker = u
         /\ sink_flush'[1].payload # NoPayload
         /\ SubSeq(sink_flush'[1].payload, 1, Len(buffers[u])) = buffers[u]
         /\ buffers'[u] = <<>>
    ELSE /\ sink_flush' = <<>>
         /\ UNCHANGED <<buffers, loud_written, chunks_flushed, sink_caller_id>>

\* C23: below the hard cap and with no speaker locked, a frame above the
\* threshold is appended without a flush; a frame at or below it flushes a
\* non-empty buffer exactly once and leaves it empty, and changes nothing
\* and flushes nothing when the buffer is empty.
C23_EnergyPolicy ==
    [][\A u \in Speakers, energy \in Energies, activates \in BOOLEAN :
          (/\ EnergyWriteFrame(u, energy, activates)
           /\ sink_caller_id = NoCaller
           /\ Len(buffers[u]) <= ENERGY_FRAME_COUNT - 2)
              => EnergyPolicyStep(u, energy)]_vars

\* C23 witness: with no speaker locked, a frame at the threshold has flushed
\* a buffer of two frames of speaker 42
C23_Witness ==
    /\ sink_caller_id = NoCaller
    /\ buffers[42] = <<>>
    /\ Len(sink_flush) = 1
    /\ sink_flush[1].speaker = 42
    /\ sink_flush[1].payload # NoPayload
    /\ SubSeq(sink_flush[1].payload, 1, 2) = <<FrameOf(1), FrameOf(2)>>

\* C24: the frames above the threshold taken for a speaker are, in order and
\* each once, the frames flushed followed by the frames still buffered: none
\* is dropped, at the hard cap or elsewhere.
C24_NoFrameDropped ==
    \A u \in Speakers :
        chunks_flushed[u] \o buffers[u] = [k \in 1..loud_written[u] |-> FrameOf(k)]

\* what synthesize_audio has to put on the output queue of run r: the audio
\* of the segments in order, then the terminal marker
ExpectedPuts(r) ==
    [j \in 1..Len(runs[r].segments) |-> Audio(j, runs[r].segments[j])]
        \o <<NoneItem>>

\* s is an initial part of t
IsPrefix(s, t) == Len(s) <= Len(t) /\ s = SubSeq(t, 1, Len(s))

\* C25: what a run has put on its output queue is always an initial part of
\* "audio of every segment in order, then one marker", and all of it once
\* synthesize_audio has returned: one marker, after all audio, nothing after.
C25_OneMarkerLast ==
    \A r \in Runs :
        runs[r].pc = "speak" =>
            /\ IsPrefix(runs[r].puts, ExpectedPuts(r))
            /\ runs[r].synth = "done" => runs[r].puts = ExpectedPuts(r)

\* C25 witness: synthesize_audio has returned on a response of two segments
C25_Witness ==
    \E r \in Runs :
        /\ runs[r].synth = "done"
        /\ Len(runs[r].segments) = 2
        /\ Len(runs[r].puts) = 3

\* C26: a playback node that has passed playback_ready.wait(), and so may
\* dequeue and play, finds the audio of the first segment enqueued before.
C26_PlaybackAfterFirstSegment ==
    \A r \in Runs :
        runs[r].play \in {"get", "playing", "done", "failed"} =>
            /\ runs[r].puts # <<>>
            /\ runs[r].puts[1] = Audio(1, runs[r].segments[1])

\* C26 witness: segment 0 of a response of two segments is playing while the
\* call that synthesizes the next segment has not returned
C26_Witness ==
    \E r \in Runs :
        /\ Len(runs[r].segments) = 2
        /\ runs[r].play = "playing"
        /\ vc_playing = r
        /\ runs[r].unit = 1
        /\ runs[r].synth = "tts"
        /\ runs[r].k = 2

\* C29: at most one run is inside generate_response between the append of
\* the user message and the append of the reply.
C29_OneGeneration ==
    Cardinality({r \in Runs : runs[r].pc = "llm"}) <= 1

\* a run that the gate has let through: it has reached generate_response
\* and its generation has not returned yet
Admitted(r) == runs[r].pc \in {"generate", "llm"}

\* C30: two runs of different speakers never both reach generate_response:
\* of two activations that meet an idle gate, one is discarded.
C30_OneOwner ==
    \A r1, r2 \in Runs :
        runs[r1].speaker # runs[r2].speaker => ~(Admitted(r1) /\ Admitted(r2))

\* a threading.Timer that has been started and not cancelled runs its
\* function once its interval has passed
SinkFairness == \A u \in Speakers : WF_vars(TimeoutFlush(u))

\* the timeout-policy sink with timers that fire
SpecSinkLive == Init /\ [][NextSink]_vars /\ SinkFairness

\* C31: for every speaker, if from some point on no further well-formed
\* frame is stored for the speaker, then from some point on the speaker's
\* buffer is empty: what was buffered has been flushed by the timer, also
\* when the last packet was a malformed one.
C31_BufferedEventuallyFlushed ==
    \A u \in Speakers :
        <>[][frames_written'[u] = frames_written[u]]_vars
            => <>[](buffer_pointer[u] = 0)

\* C32: the cursor stays within the allocated array; fill_buffer stores the
\* frame at the slot the cursor points to and moves the cursor on by exactly
\* one; the cursor goes back to 0 only in clear_buffer, after a flush.
C32_WriteCursor ==
    /\ [](\A u \in Speakers : buffer_pointer[u] \in 0..ALLOC_FRAME_COUNT)
    /\ [][FillBufferStore => pk.start = buffer_pointer[pk.speaker]]_vars
    /\ [][FillBufferInc =>
             buffer_pointer'[pk.speaker] = buffer_pointer[pk.speaker] + 1]_vars
    /\ [][\A u \in Speakers :
             (buffer_pointer[u] > 0 /\ buffer_pointer'[u] = 0)
                 => \/ ProcessDataHardCap /\ flush_call' # <<>>
                    \/ \E t \in TimerThreadsOf(u) : ClearBufferReset(t)]_vars

\* the step is a packet written for speaker u, a statement of _process_data
\* run for u, or the Timer of u firing and running _timeout_flush
StepOf(u) ==
    \/ \E len \in PacketLens : MultiAudioSinkWrite(u, len)
    \/ TimeoutFlush(u)
    \/ \E len \in PacketLens : ProcessDataBegin(u, len)
    \/ /\ pk.speaker = u
       /\ \/ ProcessDataHardCap
          \/ FillBufferStart
          \/ FillBufferStore
          \/ FillBufferLoad
          \/ FillBufferInc
          \/ ProcessDataStartTimer
    \/ TimerRun(u)
    \/ \E t \in TimerThreadsOf(u) :
          \/ TimeoutFlushCheck(t)
          \/ TimeoutFlushSnapshot(t)
          \/ TimeoutFlushCall(t)
          \/ ClearBufferFill(t)
          \/ ClearBufferReset(t)

\* the payload is read from the buffer of speaker u: the whole array, its
\* part below the cursor, or a snapshot a Timer thread of u holds
FromBufferOf(u, payload) ==
    \/ payload = BufferArray(buffer[u])
    \/ payload = SubSeq(BufferArray(buffer[u]), 1, buffer_pointer[u])
    \/ \E t \in TimerThreadsOf(u) : t.pc = "flush" /\ payload = t.payload

\* a Timer thread at the flush call holds a snapshot of its own speaker's
\* buffer: the frames the speaker has stored, or zeroed slots
OwnSnapshot(t) ==
    \A i \in 1..Len(t.payload) :
        t.payload[i] \in {ZeroFrame} \cup {FrameOf(k) : k \in 1..frames_written[t.speaker]}

\* C33: a packet for speaker a and a timer firing for a leave buffer, cursor
\* and pending timer of every other speaker as they are; a flush they make
\* is tagged a and carries what was read from a's buffer; a packet for a
\* puts a's sink into user_sinks, where it stays until cleanup.
C33_SpeakerIndependence ==
    /\ [][\A a \in Speakers :
             StepOf(a) =>
                 /\ \A b \in Speakers \ {a} :
                        /\ buffer'[b] = buffer[b]
                        /\ buffer_pointer'[b] = buffer_pointer[b]
                        /\ timer'[b] = timer[b]
                 /\ flush_call' # <<>> =>
                        /\ flush_call'[1].speaker = a
                        /\ FromBufferOf(a, flush_call'[1].payload)
                 /\ \A t \in TimerThreadsOf(a) :
                        TimeoutFlushSnapshot(t) =>
                            \E t2 \in timer_threads' :
                                /\ t2.id = t.id /\ t2.speaker = a
                                /\ FromBufferOf(a, t2.payload)
                 /\ (\E len \in PacketLens :
                        MultiAudioSinkWrite(a, len) \/ ProcessDataBegin(a, len))
                        => user_sinks' = user_sinks \cup {a}]_vars
    /\ [][user_sinks \subseteq user_sinks' \/ Cleanup]_vars
    /\ [](\A t \in timer_threads : t.pc = "flush" => OwnSnapshot(t))

\* C33 witness: the Timer of speaker 42 has flushed the one frame of 42
\* while two frames of speaker 7 are buffered and the timer of 7 is pending
C33_Witness ==
    /\ flush_call = <<[speaker |-> 42, payload |-> <<FrameOf(1)>>]>>
    /\ buffer[7] = <<FrameOf(1), FrameOf(2)>>
    /\ buffer_pointer[7] = 2
    /\ timer[7]
    /\ user_sinks = {7, 42}

\* the second session is running
SecondSession == restarted /\ vc /\ ~cleaned

\* C34: in the second session none of the four tasks listen has started has
\* ended: no loop left through a termination marker of the first session,
\* and each goes on taking from its queue.
C34_RestartKeepsStages ==
    SecondSession =>
        /\ worker_pc = "get"
        /\ process_pc = "get"
        /\ pb_pc \in {"get", "wait"}
        /\ msg_pc \notin {"off", "cancelled"}


(***************************************************************************)
(* Idle gate                                                               *)
(***************************************************************************)

\* _message_sending_loop is at the line that reads message_call
AtMessageCallRead == msg_pc = "top"

\* a get_chat_response call is being awaited by the loop
ChatCallPending == msg_pc = "llm"

\* C35: whenever caller_id is None, chat_history is empty; where the loop
\* reads message_call with caller_id None, message_call holds no request;
\* and get_chat_response is never awaited while caller_id is None.
C35_IdleGate ==
    caller_id = NoCaller =>
        /\ chat_history = <<>>
        /\ AtMessageCallRead => message_call = <<>>
        /\ ~ChatCallPending



(***************************************************************************)
(* Termination of the playback node                                        *)
(***************************************************************************)

\* the event loop runs every coroutine that can go on, the text-to-speech
\* calls return and the voice client finishes what it plays
GraphFairness ==
    /\ \A r \in Runs : WF_vars(SynthesizeAudio(r))
    /\ \A r \in Runs : WF_vars(SynthesizeAudioResume(r))
    /\ \A r \in Runs : WF_vars(PlaybackReady(r))
    /\ \A r \in Runs : WF_vars(PlayChunk(r))
    /\ \A r \in Runs : WF_vars(PlayChunkEnds(r))
    /\ WF_vars(GraphPlayEnds)

SpecGraphLive == Init /\ [][NextGraph]_vars /\ GraphFairness

\* play_response_on_channel of run r awaits playback_ready.wait()
WaitsOnPlaybackReady(r) == runs[r].play = "wait"

\* C36: for every response generate_response returns, the playback node
\* that was started for it leaves its wait on playback_ready and ends up
\* having read the terminal marker.
C36_PlaybackReturns ==
    \A r \in Runs :
        /\ WaitsOnPlaybackReady(r) ~> ~WaitsOnPlaybackReady(r)
        /\ WaitsOnPlaybackReady(r) ~> runs[r].play = "done"



(***************************************************************************)
(* Synthesis calls per chunk                                               *)
(***************************************************************************)

\* _process_response has returned for the response of this iteration
ProcessResponseReturned == msg_pc = "sleep" /\ tts_text # <<>>

\* a get_text_to_speech task that _process_response created and never
\* awaits
NotAwaited(t) == t.kind = "prefetch"

\* C37: _process_response never issues more get_text_to_speech calls than
\* the response has chunks; when it has returned, the number of calls and
\* the number of puts both equal the number of chunks; and it creates no
\* task whose result it does not await.
C37_OneCallPerChunk ==
    /\ Len(tts_calls) <= Len(tts_chunks)
    /\ ProcessResponseReturned =>
           /\ Len(tts_calls) = Len(tts_chunks)
           /\ Len(tts_puts) = Len(tts_calls)
    /\ \A t \in tts_tasks : ~NotAwaited(t)


=============================================================================
